---- MODULE Spec2Model ----
(***************************************************************************)
(* A model of the curling physics engine (src/js/physics.js, class         *)
(* PhysicsEngine) and of the stone record (src/js/stone.js).               *)
(*                                                                         *)
(* Numbers.  The engine computes in IEEE doubles; the model computes in    *)
(* fixed point with Scale units per metre, per metre/second, per radian    *)
(* and per radian/second, and with time in milliseconds.  One unit of      *)
(* length is COLLISION_EPSILON (1e-4 m), so SPEED_EPSILON (0.01) is 100    *)
(* units.  Quotients are truncated toward zero (Div), square roots are     *)
(* floored (Isqrt); distance tests against 2*radius are made on the exact  *)
(* squared distance.  Motion along the y axis with vx = 0 is exact up to   *)
(* the truncation of friction * dt.                                        *)
(***************************************************************************)
EXTENDS Integers, Sequences, FiniteSets, TLC

VARIABLES
  stones,           \* this.stones: the registry, in registration order
  stoneInventory,   \* this.stoneInventory: key -> index into stones
  outTrayLayouts,   \* this.outTrayLayouts: colour -> sequence of slots
  outTrayIndices,   \* this.outTrayIndices: colour -> next slot (0-based)
  isActive,         \* this.isActive
  lastTimestamp,    \* this.lastTimestamp (Null or a timestamp in ms)
  callbacks,        \* the callbacks registered at construction
  geometry,         \* the geometry given at construction (a line that was
                    \* not given is Null, extents not given are no field)
  clock,            \* timestamp of the latest update call (the frame clock)
  op,               \* the latest operation: its arguments and what it did
  hist,             \* per-throw history: counts of callbacks, latches
  game              \* the variables of the page's game flow (main.js);
                    \* pc is "none" where the engine is driven directly

vars == << stones, stoneInventory, outTrayLayouts, outTrayIndices, isActive,
           lastTimestamp, callbacks, geometry, clock, op, hist, game >>

engineVars == << stones, stoneInventory, outTrayLayouts, outTrayIndices,
                 isActive, lastTimestamp >>

----------------------------------------------------------------------------
(* Units and program constants *)

Scale == 10000
Null == -1

SPEED_EPSILON == 100
TWO_PI == 62832
FOOT_IN_METERS == 3048
DEFAULT_FRICTION_BASELINE == 164
DEFAULT_FRICTION_SPEED_FACTOR == 1732
DEFAULT_FRICTION_LOW_SPEED_EPS == 10000
DEFAULT_CURL_MIN_SPEED == 1500
DEFAULT_CURL_ROTATION_REFERENCE == 60000
DEFAULT_CURL_ASYMMETRY == 80
DEFAULT_CURL_VELOCITY_BIAS == 5000
DEFAULT_CURL_MIN_OMEGA == 500
GRAVITY == 98100
DEFAULT_COLLISION_RESTITUTION == 9000
DEFAULT_COLLISION_SPIN_TRANSFER == 3000
DEFAULT_COLLISION_SPIN_DAMPING == 10
DEFAULT_COLLISION_TANGENTIAL_LOSS == 1000
COLLISION_EPSILON == 1
DEFAULT_PATH_SAMPLE_INTERVAL == 1000
MAX_PATH_SAMPLE_POINTS == 240
MAX_DELTA == 3500

RED == "red"
YELLOW == "yellow"
StoneColor == {RED, YELLOW}

(* Constructor arguments: the geometry of a short sheet.  The activation   *)
(* line lies 2 ft short of the near hog line, above the launch line.       *)
ShortSheet ==
  [ launchY |-> 0,
    stoneRadius |-> 1450,
    hogLineNear |-> 7000,
    hogLineFar |-> 10000,
    backLineY |-> 26000,
    sheetExtents |-> [xMin |-> -12000, xMax |-> 12000, yMin |-> -8000, yMax |-> 30000] ]

\* The fields the constructor copies from its arguments
launchY == geometry.launchY
stoneRadius == geometry.stoneRadius
hogLineNear == geometry.hogLineNear
hogLineFar == geometry.hogLineFar
backLineY == geometry.backLineY
sheetExtents == geometry.sheetExtents

\* The collision coefficients, which the constructor defaults when its
\* arguments do not name them
Given(args, field, default) == IF field \in DOMAIN args THEN args[field] ELSE default
collisionRestitution ==
  Given(geometry, "collisionRestitution", DEFAULT_COLLISION_RESTITUTION)
collisionSpinTransfer ==
  Given(geometry, "collisionSpinTransfer", DEFAULT_COLLISION_SPIN_TRANSFER)
collisionSpinDamping ==
  Given(geometry, "collisionSpinDamping", DEFAULT_COLLISION_SPIN_DAMPING)
collisionTangentialLoss ==
  Given(geometry, "collisionTangentialLoss", DEFAULT_COLLISION_TANGENTIAL_LOSS)

----------------------------------------------------------------------------
(* Bounds of the model and the inputs the operations are tried with *)

MaxTicks == 12
MaxThrows == 2

MaxClock == MaxTicks * 1000

\* The throws made on a team of two red stones
MaxTrayThrows == 3

\* The frames of a page that was hidden for minutes: gaps of 120 s and
\* 240 s, the latter long enough for one step to fill a path trace
MaxLongTicks == 5
LongDts == {120000, 240000}
MaxLongClock == MaxLongTicks * 120000

\* update(timestamp): the gaps between consecutive frames, in ms.
Dts == {1000, 5000}

\* throwStone arguments.  <<>> is an absent velocity, "" an absent colour,
\* Null an absent number.
NoVelocity == <<>>

Throw(color, velocity, spin, angle, offsetX) ==
  [color |-> color, number |-> 1, velocity |-> velocity, spin |-> spin,
   angle |-> angle, offsetX |-> offsetX]

\* The throws that are tried.  A stone thrown at 4500 stops short of the far
\* hog line when the frames are 1 s apart and rests in play after a frame
\* gap of 5 s.  Two stones thrown side by side, 2899 apart, travel and rest
\* 1 unit closer than two radii.  A yellow stone thrown down the centre
\* line, or 1000 beside it, meets the red one.
ValidThrows ==
  { Throw(RED, <<0, 4500>>, 0, 0, 0),
    Throw(RED, <<0, 4500>>, 13300, 15708, 0),
    Throw(YELLOW, <<0, 4500>>, 0, 0, 0),
    Throw(YELLOW, <<0, 6000>>, 0, 0, 1000),
    Throw(YELLOW, <<0, 4500>>, 0, 0, 2899),
    Throw(YELLOW, <<0, 4500>>, 13300, 15708, 2899) }

\* initializeStones(stoneConfigs)
StandardConfigs ==
  << [color |-> RED,    number |-> 1, position |-> [x |-> -9000, y |-> -6000]],
     [color |-> YELLOW, number |-> 1, position |-> [x |->  9000, y |-> -6000]] >>
ConfigLists == {StandardConfigs}

\* setOutTrayLayouts(layoutMap)
StandardLayouts ==
  [c \in StoneColor |->
     IF c = RED THEN << [x |-> 9000, y |-> 28000], [x |-> 9000, y |-> 24000] >>
                ELSE << [x |-> -9000, y |-> 28000], [x |-> -9000, y |-> 24000] >>]
LayoutMaps == {StandardLayouts}

\* A team of two red stones and one yellow stone, and throws that are ruled
\* out: two that stop short of the far hog line within one step, one that
\* runs into the side wall
TeamConfigs ==
  << [color |-> RED,    number |-> 1, position |-> [x |-> -9000, y |-> -6000]],
     [color |-> RED,    number |-> 2, position |-> [x |-> -9000, y |-> -3000]],
     [color |-> YELLOW, number |-> 1, position |-> [x |->  9000, y |-> -6000]] >>

\* Lists of configs for initializeStones: one that names each stone once,
\* one that names red 1 twice, at two positions
RepeatingConfigs ==
  << [color |-> RED,    number |-> 1, position |-> [x |-> -9000, y |-> -6000]],
     [color |-> RED,    number |-> 1, position |-> [x |-> -9000, y |-> -3000]],
     [color |-> YELLOW, number |-> 1, position |-> [x |->  9000, y |-> -6000]] >>

RegistryConfigLists == {StandardConfigs, TeamConfigs, RepeatingConfigs}

ShortThrows ==
  { Throw(RED, <<0, 1000>>, 0, 0, 0),
    [Throw(RED, <<0, 1000>>, 0, 0, 0) EXCEPT !.number = 2],
    [Throw(RED, <<4500, 4500>>, 0, 0, 0) EXCEPT !.number = 2] }

\* Two slow stones thrown 1000 apart: in a long step each runs to its rest
\* in play, where the two overlap
SlowThrows ==
  { Throw(RED, <<0, 200>>, 0, 0, 0),
    Throw(YELLOW, <<0, 200>>, 0, 0, 1000) }

CallbackNames == {"onStoneStopped", "onHogSplit", "onHogNearCross", "onStoneReleased"}
CallbackConfigs == {CallbackNames}

Geometries == {ShortSheet}

\* The same sheet constructed without sheetExtents, and without backLineY
NoExtentsSheet ==
  [ launchY |-> 0,
    stoneRadius |-> 1450,
    hogLineNear |-> 7000,
    hogLineFar |-> 10000,
    backLineY |-> 26000 ]

NoBackLineSheet == [ShortSheet EXCEPT !.backLineY = Null]

SheetGeometries == {ShortSheet, NoExtentsSheet, NoBackLineSheet}

\* The short sheet with a perfectly elastic collision: restitution 1, no
\* tangential loss, no spin transfer
ElasticSheet ==
  [ launchY |-> 0,
    stoneRadius |-> 1450,
    hogLineNear |-> 7000,
    hogLineFar |-> 10000,
    backLineY |-> 26000,
    sheetExtents |-> [xMin |-> -12000, xMax |-> 12000, yMin |-> -8000, yMax |-> 30000],
    collisionRestitution |-> Scale,
    collisionSpinTransfer |-> 0,
    collisionTangentialLoss |-> 0 ]

CollisionSheets == {ElasticSheet, ShortSheet}

\* Throws along the launch line, toward each other at the same speed
HeadOnThrows ==
  { Throw(RED, <<5000, 0>>, 0, 0, -6000),
    Throw(YELLOW, <<-5000, 0>>, 0, 0, 6000),
    Throw(RED, <<5000, 0>>, 0, 0, -5000),
    Throw(YELLOW, <<-5000, 0>>, 0, 0, 5000),
    Throw(YELLOW, <<-3000, 0>>, 0, 0, 5000) }

\* Frames 100 ms and 200 ms apart: a stone thrown at 4500 needs three of
\* the former to reach the activation line
MaxShortTicks == 8
ShortDts == {100, 200}
MaxShortClock == MaxShortTicks * 100

\* Throws with and without spin, of stones that overlap at the launch line
\* and of stones that do not
SpinThrows ==
  { Throw(RED, <<0, 4500>>, 0, 0, 0),
    Throw(RED, <<0, 4500>>, -13300, 0, 0),
    Throw(YELLOW, <<0, 6000>>, 13300, 0, 1000),
    Throw(YELLOW, <<0, 4500>>, 13300, 0, 4000) }

\* Frames half a path sample interval and a whole one apart, and throws
\* that come to rest between the far hog line and the back line
MaxSettleTicks == 11
SettleDts == {500, 1000}
MaxSettleClock == MaxSettleTicks * 500

RestingThrows ==
  { Throw(RED, <<0, 6000>>, 0, 0, 0),
    Throw(YELLOW, <<0, 6000>>, 0, 0, 4000),
    Throw(YELLOW, <<0, 6000>>, 13300, 0, 4000) }

\* The page's game (main.js), on a sheet with the tee at the origin: the
\* launch line below the activation line, the far hog line outside the
\* house, the back line one house radius behind the tee.  One stone a team,
\* at home in the trays beside the launch line; the out trays at the far
\* end.
GameSheet ==
  [ launchY |-> -34000,
    stoneRadius |-> 1450,
    hogLineNear |-> -27000,
    hogLineFar |-> -21000,
    backLineY |-> 18288,
    sheetExtents |-> [xMin |-> -23749, xMax |-> 23749, yMin |-> -38000, yMax |-> 30000] ]

redStoneConfigs ==
  << [color |-> RED, number |-> 1, position |-> [x |-> -20000, y |-> -36000]] >>
yellowStoneConfigs ==
  << [color |-> YELLOW, number |-> 1, position |-> [x |-> 20000, y |-> -36000]] >>

GameLayouts ==
  [c \in StoneColor |->
     IF c = RED THEN << [x |-> 20000, y |-> 28000], [x |-> 17000, y |-> 28000] >>
                ELSE << [x |-> -20000, y |-> 28000], [x |-> -17000, y |-> 28000] >>]

\* The ends of a game (10 on the page) and the frames that are played, 1 s
\* apart; the house has a radius of 6 ft
BASE_ENDS == 1
HOUSE_RADIUS == 18288
MaxGameTicks == 40
GameDts == {1000}

\* What createDemoThrowPlan draws at random: a stone that stops short of
\* the far hog line, one that rests in play outside the house, one that
\* rests in the house, one that curls into the house
DemoThrows ==
  { [velocity |-> <<0, 4500>>, rotation |-> 0],
    [velocity |-> <<0, 6000>>, rotation |-> 0],
    [velocity |-> <<0, 7000>>, rotation |-> 0],
    [velocity |-> <<400, 7000>>, rotation |-> -20000] }

\* Throws that leave the sheet: straight up the centre line to the back
\* line, and across the sheet to the side wall
LongThrows ==
  { Throw(RED, <<0, 10000>>, 0, 0, 0),
    Throw(RED, <<4500, 4500>>, 0, 0, 0),
    Throw(YELLOW, <<0, 4500>>, 0, 0, 2899) }

----------------------------------------------------------------------------
(* Arithmetic *)

Abs(a) == IF a < 0 THEN -a ELSE a
Sign(a) == IF a > 0 THEN 1 ELSE IF a < 0 THEN -1 ELSE 0
Max(a, b) == IF a >= b THEN a ELSE b
Min(a, b) == IF a <= b THEN a ELSE b

\* a / b for b > 0, truncated toward zero
Div(a, b) == IF a >= 0 THEN a \div b ELSE -((-a) \div b)

\* JavaScript's a % b: the remainder has the sign of a
Rem(a, b) == a - b * Div(a, b)

RECURSIVE IsqrtIter(_, _, _)
IsqrtIter(n, lo, hi) ==
  IF lo >= hi THEN lo
  ELSE LET mid == (lo + hi + 1) \div 2
       IN  IF mid * mid <= n THEN IsqrtIter(n, mid, hi)
                             ELSE IsqrtIter(n, lo, mid - 1)

Isqrt(n) == IsqrtIter(n, 0, 46340)

\* Math.hypot
Hypot(a, b) ==
  IF b = 0 THEN Abs(a)
  ELSE IF a = 0 THEN Abs(b)
  ELSE Isqrt(a * a + b * b)

\* Math.cos and Math.sin of an angle of at most MAX_DELTA, by Taylor series
Cos(d) ==
  LET d2 == Div(d * d, Scale)
  IN  Scale - Div(d * d, 2 * Scale) + Div(d2 * d2, 24 * Scale)

Sin(d) ==
  LET d2 == Div(d * d, Scale)
  IN  d - Div(d2 * d, 6 * Scale)

----------------------------------------------------------------------------
(* The stone record and the registry *)

\* An attachTiming that leaves the timestamps of the stone: a variant
\* against which the property of the single timing of a throw is tested
KeepTiming(stone) == stone

\* attachTiming: stone.hogTiming
attachTiming(stone) ==
  [stone EXCEPT !.hogTiming = [nearCrossedAt |-> Null, farCrossedAt |-> Null]]

\* resetStonePath with includeCurrentPosition = true
resetStonePath(stone) ==
  [stone EXCEPT !.pathSamples = << stone.position >>, !.pathSampleTimer = 0]

\* new CurlingStone(...) followed by the assignments of initializeStones
CurlingStone(config) ==
  attachTiming(resetStonePath(
    [ position |-> config.position,
      velocity |-> [vx |-> 0, vy |-> 0],
      rotationRate |-> 0,
      pendingRotationRate |-> 0,
      rotationActivated |-> FALSE,
      angle |-> 0,
      color |-> config.color,
      number |-> config.number,
      isLaunched |-> FALSE,
      isOut |-> FALSE,
      hasStoppedNotified |-> TRUE,
      hogTiming |-> [nearCrossedAt |-> Null, farCrossedAt |-> Null],
      pathSamples |-> << >>,
      pathSampleTimer |-> 0 ]))

\* makeStoneKey: `${color}:${number}`, one key per (color, number) pair
makeStoneKey(color, number) == << color, number >>

\* The inventory after the stones of configs are set one by one: a later
\* config with the same key replaces the earlier one.
InventoryOf(configs) ==
  LET keys == { makeStoneKey(configs[i].color, configs[i].number) : i \in 1..Len(configs) }
  IN  [ k \in keys |->
          CHOOSE i \in 1..Len(configs) :
            /\ makeStoneKey(configs[i].color, configs[i].number) = k
            /\ \A j \in 1..Len(configs) :
                 makeStoneKey(configs[j].color, configs[j].number) = k => j <= i ]

\* findStone: the index of the stone in the registry, 0 when there is none
findStone(color, number) ==
  IF makeStoneKey(color, number) \in DOMAIN stoneInventory
    THEN stoneInventory[makeStoneKey(color, number)]
    ELSE 0

\* Map.set(key, value)
MapSet(map, key, value) ==
  [ k \in (DOMAIN map) \cup {key} |-> IF k = key THEN value ELSE map[k] ]

\* History kept beside the engine: how often onStoneStopped was invoked for
\* each stone since its last throw, whether a stone has been quiet (neither
\* displacing nor spinning above the epsilon, nor thrown) since its last
\* onStoneStopped, the arguments of each stone's last throw, how often a
\* near-hog crossing and a far-hog split were recorded for each stone since
\* its last throw, and the slot (counted from 1, 0: none) on which each
\* stone was placed when it was last ruled out.
NoThrow == [velocity |-> NoVelocity, spin |-> 0, angle |-> 0, offsetX |-> 0]

FreshHist(n) ==
  [ throws |-> 0,
    updatesSinceThrow |-> 0,
    stopCount |-> [i \in 1..n |-> 0],
    quiet |-> [i \in 1..n |-> FALSE],
    lastThrow |-> [i \in 1..n |-> NoThrow],
    nearCount |-> [i \in 1..n |-> 0],
    farCount |-> [i \in 1..n |-> 0],
    traySlot |-> [i \in 1..n |-> 0] ]

----------------------------------------------------------------------------
(* initializeStones, setOutTrayLayouts, resetOutTrayIndices *)

initializeStones(stoneConfigs) ==
  /\ stones' = [i \in 1..Len(stoneConfigs) |-> CurlingStone(stoneConfigs[i])]
  /\ stoneInventory' = InventoryOf(stoneConfigs)
  /\ isActive' = FALSE
  /\ lastTimestamp' = Null
  /\ op' = [name |-> "initializeStones"]
  /\ hist' = FreshHist(Len(stoneConfigs))
  /\ UNCHANGED << outTrayLayouts, outTrayIndices, callbacks, geometry, clock >>

setOutTrayLayouts(layoutMap) ==
  /\ outTrayLayouts' = layoutMap
  /\ outTrayIndices' = [c \in DOMAIN layoutMap |-> 0]
  /\ op' = [name |-> "setOutTrayLayouts"]
  /\ UNCHANGED << stones, stoneInventory, isActive, lastTimestamp, callbacks, geometry,
                  clock, hist >>

resetOutTrayIndices ==
  /\ outTrayIndices' = [c \in DOMAIN outTrayIndices |-> 0]
  /\ op' = [name |-> "resetOutTrayIndices"]
  /\ UNCHANGED << stones, stoneInventory, outTrayLayouts, isActive,
                  lastTimestamp, callbacks, geometry, clock, hist >>

----------------------------------------------------------------------------
(* throwStone *)

\* A throwStone that does not look at isLaunched: a variant against which
\* the property of the failing throws is tested
ThrowErrorUnlessLaunched(color, number, velocity) ==
  IF velocity = NoVelocity THEN "velocity"
  ELSE IF color = "" \/ number = Null THEN "colorNumber"
  ELSE IF makeStoneKey(color, number) \notin DOMAIN stoneInventory THEN "unregistered"
  ELSE "none"

\* A throwStone that refuses a launched stone only while it moves: a
\* variant against which the property of the refused throws is tested
ThrowErrorWhileMoving(color, number, velocity) ==
  IF velocity = NoVelocity THEN "velocity"
  ELSE IF color = "" \/ number = Null THEN "colorNumber"
  ELSE IF makeStoneKey(color, number) \notin DOMAIN stoneInventory THEN "unregistered"
  ELSE IF /\ stones[stoneInventory[makeStoneKey(color, number)]].isLaunched
          /\ stones[stoneInventory[makeStoneKey(color, number)]].velocity # [vx |-> 0, vy |-> 0]
    THEN "launched"
  ELSE "none"

\* The error throwStone raises for these arguments, "none" when it raises
\* none.
ThrowError(color, number, velocity) ==
  IF velocity = NoVelocity THEN "velocity"
  ELSE IF color = "" \/ number = Null THEN "colorNumber"
  ELSE IF findStone(color, number) = 0 THEN "unregistered"
  ELSE IF stones[findStone(color, number)].isLaunched THEN "launched"
  ELSE "none"

\* A throwStone that keeps the path trace of the stone: a variant against
\* which the property of the successful throw is tested
ThrownStoneKeepingPath(stone, velocity, rotationRadiansPerSecond, angleRadians, offsetX) ==
  attachTiming(
    [stone EXCEPT
       !.position = [x |-> offsetX, y |-> launchY],
       !.velocity = [vx |-> velocity[1], vy |-> velocity[2]],
       !.pendingRotationRate = rotationRadiansPerSecond,
       !.rotationRate = 0,
       !.rotationActivated = (rotationRadiansPerSecond = 0),
       !.angle = angleRadians,
       !.isLaunched = TRUE,
       !.isOut = FALSE,
       !.hasStoppedNotified = FALSE])

\* The stone after the assignments of a successful throwStone
ThrownStone(stone, velocity, rotationRadiansPerSecond, angleRadians, offsetX) ==
  attachTiming(resetStonePath(
    [stone EXCEPT
       !.position = [x |-> offsetX, y |-> launchY],
       !.velocity = [vx |-> velocity[1], vy |-> velocity[2]],
       !.pendingRotationRate = rotationRadiansPerSecond,
       !.rotationRate = 0,
       !.rotationActivated = (rotationRadiansPerSecond = 0),
       !.angle = angleRadians,
       !.isLaunched = TRUE,
       !.isOut = FALSE,
       !.hasStoppedNotified = FALSE]))

\* A throwStone that leaves lastTimestamp as it finds it: a variant against
\* which the property of the first update after a throw is tested
KeptBaseline == lastTimestamp

\* isActive and lastTimestamp after a successful throwStone
ThrownActive == TRUE
ThrownBaseline == Null

throwStone(color, number, velocity, rotationRadiansPerSecond, angleRadians, offsetX) ==
  LET err == ThrowError(color, number, velocity)
      i == findStone(color, number)
      args == [color |-> color, number |-> number, velocity |-> velocity,
               spin |-> rotationRadiansPerSecond, angle |-> angleRadians,
               offsetX |-> offsetX]
  IN  IF err # "none"
        THEN /\ op' = [name |-> "throwStone", args |-> args, result |-> err,
                       stone |-> 0, calls |-> << >>]
             /\ UNCHANGED << stones, stoneInventory, outTrayLayouts, outTrayIndices,
                             isActive, lastTimestamp, callbacks, geometry, clock, hist >>
        ELSE /\ stones' = [stones EXCEPT ![i] =
                  ThrownStone(stones[i], velocity, rotationRadiansPerSecond,
                              angleRadians, offsetX)]
             /\ isActive' = ThrownActive
             /\ lastTimestamp' = ThrownBaseline
             /\ op' = [name |-> "throwStone", args |-> args, result |-> "ok",
                       stone |-> i,
                       calls |-> IF "onStoneReleased" \in callbacks
                                   THEN << [cb |-> "onStoneReleased", at |-> clock] >>
                                   ELSE << >>]
             /\ hist' = [hist EXCEPT
                           !.throws = hist.throws + 1,
                           !.updatesSinceThrow = 0,
                           !.stopCount[i] = 0,
                           !.quiet[i] = FALSE,
                           !.nearCount[i] = 0,
                           !.farCount[i] = 0,
                           !.lastThrow[i] = [velocity |-> velocity,
                                             spin |-> rotationRadiansPerSecond,
                                             angle |-> angleRadians,
                                             offsetX |-> offsetX]]
             /\ UNCHANGED << stoneInventory, outTrayLayouts, outTrayIndices,
                             callbacks, geometry, clock >>

----------------------------------------------------------------------------
(* Helpers of step.  W is the engine while a step runs:                    *)
(*   W.stones, W.outTrayIndices   the fields the step assigns              *)
(*   W.anyMoving                  the local of step                        *)
(*   W.calls                      the callbacks invoked so far, in order   *)
(*   W.stopCount, W.quiet         the history (see FreshHist)              *)
(*   W.touched                    the stones the collision pass handled    *)
(*   W.integrated                 the stones the loop displaced, and where *)
(*                                their integration left them              *)
(*   W.collisions                 the pairs resolveCollisions handled      *)
(*   W.nearCount, W.farCount,     the history (see FreshHist)              *)
(*   W.traySlot                                                            *)

\* A trimPathSamples that removes the newest points: a variant against
\* which the property of the capped path trace is tested
trimNewestSamples(samples) ==
  IF Len(samples) > MAX_PATH_SAMPLE_POINTS
    THEN SubSeq(samples, 1, MAX_PATH_SAMPLE_POINTS)
    ELSE samples

\* trimPathSamples: keep the newest maxPathSamples points
trimPathSamples(samples) ==
  IF Len(samples) > MAX_PATH_SAMPLE_POINTS
    THEN SubSeq(samples, Len(samples) - MAX_PATH_SAMPLE_POINTS + 1, Len(samples))
    ELSE samples

\* appendTerminalPathPoint
appendTerminalPathPoint(stone) ==
  IF Len(stone.pathSamples) = 0 THEN resetStonePath(stone)
  ELSE IF stone.pathSamples[Len(stone.pathSamples)] # stone.position
    THEN [stone EXCEPT !.pathSamples =
            trimPathSamples(Append(stone.pathSamples, stone.position))]
    ELSE stone

\* The while loop of recordStonePathSample: one point per elapsed interval,
\* each pushed and trimmed on its own.  The n turns of the loop are made as
\* the first half of them followed by the rest; the trace after the first
\* half is the element of a singleton set, so that it is computed before
\* the rest is.
RECURSIVE PushSamples(_, _, _)
PushSamples(samples, point, n) ==
  IF n = 0 THEN samples
  ELSE IF n = 1 THEN trimPathSamples(Append(samples, point))
  ELSE CHOOSE pushed \in { PushSamples(half, point, n - n \div 2) :
                             half \in { PushSamples(samples, point, n \div 2) } } : TRUE

\* recordStonePathSample
recordStonePathSample(stone, deltaSeconds, displacement) ==
  IF displacement > 0 /\ deltaSeconds > 0
    THEN LET timer == stone.pathSampleTimer + deltaSeconds
         IN  [stone EXCEPT
                !.pathSamples = PushSamples(stone.pathSamples, stone.position,
                                            timer \div DEFAULT_PATH_SAMPLE_INTERVAL),
                !.pathSampleTimer = timer % DEFAULT_PATH_SAMPLE_INTERVAL]
    ELSE appendTerminalPathPoint(stone)

\* A step that rules no stone out for stopping short: a variant against
\* which the property of the stones that stop short is tested
NeverShort(stone) == FALSE

\* isOutBeforeFarHog
isOutBeforeFarHog(stone) ==
  IF hogLineFar = Null THEN FALSE ELSE stone.position.y < hogLineFar

\* isOutOfBounds
isOutOfBounds(stone) ==
  LET leftBound == sheetExtents.xMin + stoneRadius
      rightBound == sheetExtents.xMax - stoneRadius
  IN  /\ "sheetExtents" \in DOMAIN geometry
      /\ \/ stone.position.x <= leftBound
         \/ stone.position.x >= rightBound
         \/ (backLineY # Null /\ stone.position.y - stoneRadius >= backLineY)

\* The slot placeStoneInOutTray picks for a colour (0: none, the colour has
\* no slots), counted from 1
OutTraySlot(indices, color) ==
  LET slots == IF color \in DOMAIN outTrayLayouts THEN outTrayLayouts[color] ELSE << >>
      currentIndex == IF color \in DOMAIN indices THEN indices[color] ELSE 0
  IN  IF Len(slots) = 0 THEN 0 ELSE Min(currentIndex, Len(slots) - 1) + 1

\* A placeStoneInOutTray that does not advance the index: a variant against
\* which the property of the slot of a stone that is ruled out is tested
SameTrayIndex(currentIndex, length) == Min(currentIndex, length - 1)

\* The index placeStoneInOutTray stores after a placement
NextTrayIndex(currentIndex, length) == Min(currentIndex + 1, length - 1)

\* placeStoneInOutTray
placeStoneInOutTray(W, i) ==
  LET color == W.stones[i].color
      k == OutTraySlot(W.outTrayIndices, color)
      currentIndex == IF color \in DOMAIN W.outTrayIndices
                        THEN W.outTrayIndices[color] ELSE 0
  IN  IF k = 0 THEN [W EXCEPT !.traySlot[i] = 0]
      ELSE [W EXCEPT
              !.traySlot[i] = k,
              !.stones[i].position = outTrayLayouts[color][k],
              !.outTrayIndices =
                 MapSet(W.outTrayIndices, color,
                        NextTrayIndex(currentIndex, Len(outTrayLayouts[color])))]

\* this.onStoneStopped(stone), when the callback is registered; from is
\* where the stone stopped, repeat whether it has been quiet since the
\* callback was last invoked for it
InvokeStopped(W, i, out, from) ==
  IF "onStoneStopped" \in callbacks
    THEN [W EXCEPT
            !.calls = Append(W.calls, [cb |-> "onStoneStopped", stone |-> i,
                                       out |-> out, from |-> from,
                                       repeat |-> W.quiet[i]]),
            !.stopCount[i] = W.stopCount[i] + 1,
            !.quiet[i] = TRUE]
    ELSE W

\* A handleStoneOut that leaves the spin of the stone: a variant against
\* which the property of the stones that are out is tested
OutStoneKeepingSpin(stone) ==
  [stone EXCEPT
     !.velocity = [vx |-> 0, vy |-> 0],
     !.pendingRotationRate = 0,
     !.rotationActivated = TRUE,
     !.angle = 0,
     !.isLaunched = FALSE,
     !.isOut = TRUE,
     !.hasStoppedNotified = TRUE]

\* The fields handleStoneOut assigns before it places the stone
OutStone(stone) ==
  [stone EXCEPT
     !.velocity = [vx |-> 0, vy |-> 0],
     !.pendingRotationRate = 0,
     !.rotationRate = 0,
     !.rotationActivated = TRUE,
     !.angle = 0,
     !.isLaunched = FALSE,
     !.isOut = TRUE,
     !.hasStoppedNotified = TRUE]

\* handleStoneOut
handleStoneOut(W, i) ==
  InvokeStopped(
    placeStoneInOutTray([W EXCEPT !.stones[i] = OutStone(W.stones[i])], i),
    i, TRUE, W.stones[i].position)

\* A step that invokes onStoneStopped without setting the latch: a variant
\* against which the property of the single notification is tested
NotifyWithoutLatch(W, i) ==
  IF ~W.stones[i].hasStoppedNotified /\ "onStoneStopped" \in callbacks
    THEN InvokeStopped(W, i, FALSE, W.stones[i].position)
    ELSE W

\* The latch of step: notify once that a stone has stopped in play
NotifyStopped(W, i) ==
  IF ~W.stones[i].hasStoppedNotified /\ "onStoneStopped" \in callbacks
    THEN [InvokeStopped(W, i, FALSE, W.stones[i].position)
            EXCEPT !.stones[i].hasStoppedNotified = TRUE]
    ELSE W

\* checkRotationActivation
checkRotationActivation(stone, previousY, activationY) ==
  IF stone.rotationActivated \/ stone.pendingRotationRate = 0 THEN stone
  ELSE LET currentY == stone.position.y
           crossed == \/ (previousY < activationY /\ currentY >= activationY)
                      \/ (previousY > activationY /\ currentY <= activationY)
       IN  IF crossed \/ currentY = activationY
             THEN [stone EXCEPT !.rotationRate = stone.pendingRotationRate,
                                !.pendingRotationRate = 0,
                                !.rotationActivated = TRUE]
             ELSE stone

\* Whether a step from previousY to y crosses or lands on a line; no
\* comparison with a line that was not given is true
Crosses(previousY, y, line) ==
  /\ line # Null
  /\ \/ (previousY < line /\ y >= line)
     \/ (previousY > line /\ y <= line)

\* checkHogLineCrossings; now is what performance.now() returns
checkHogLineCrossings(W, i, previousY, now) ==
  LET stone == W.stones[i]
      nearNow == /\ stone.hogTiming.nearCrossedAt = Null
                 /\ Crosses(previousY, stone.position.y, hogLineNear)
      nearAt == IF nearNow THEN now ELSE stone.hogTiming.nearCrossedAt
      farNow == /\ nearAt # Null
                /\ stone.hogTiming.farCrossedAt = Null
                /\ Crosses(previousY, stone.position.y, hogLineFar)
      farAt == IF farNow THEN now ELSE stone.hogTiming.farCrossedAt
      nearCalls == IF nearNow /\ "onHogNearCross" \in callbacks
                     THEN << [cb |-> "onHogNearCross", stone |-> i] >> ELSE << >>
      farCalls == IF farNow /\ "onHogSplit" \in callbacks
                    THEN << [cb |-> "onHogSplit", stone |-> i,
                             durationMs |-> farAt - nearAt] >>
                    ELSE << >>
  IN  [W EXCEPT
         !.stones[i].hogTiming = [nearCrossedAt |-> nearAt, farCrossedAt |-> farAt],
         !.nearCount[i] = W.nearCount[i] + (IF nearNow THEN 1 ELSE 0),
         !.farCount[i] = W.farCount[i] + (IF farNow THEN 1 ELSE 0),
         !.calls = W.calls \o nearCalls \o farCalls]

\* computeCurlHeadingDelta; rotationRate is the stone's rate after its decay
computeCurlHeadingDelta(rotationRate, speed, deltaSeconds) ==
  IF Sign(rotationRate) = 0 \/ Abs(rotationRate) < DEFAULT_CURL_MIN_OMEGA THEN 0
  ELSE
    LET direction == -Sign(rotationRate)
        effectiveSpeed == Max(speed, DEFAULT_CURL_MIN_SPEED)
        rotationRef == Max(DEFAULT_CURL_ROTATION_REFERENCE, SPEED_EPSILON)
        rotationFactor == Min(Div(Abs(rotationRate) * Scale, rotationRef), Scale)
        gravityAsymmetry == Div(GRAVITY * DEFAULT_CURL_ASYMMETRY, Scale)
        lateralAcceleration ==
          direction * Div(gravityAsymmetry * rotationFactor,
                          effectiveSpeed + Max(DEFAULT_CURL_VELOCITY_BIAS, 0))
        headingDelta == Div(lateralAcceleration * deltaSeconds * 10, effectiveSpeed)
    IN  IF effectiveSpeed <= SPEED_EPSILON \/ rotationFactor <= 0 \/ deltaSeconds <= 0
          THEN 0
          ELSE Max(-MAX_DELTA, Min(MAX_DELTA, headingDelta))

\* The friction of step for a stone of this speed
Friction(speed) ==
  DEFAULT_FRICTION_BASELINE
    + Div(DEFAULT_FRICTION_SPEED_FACTOR * Scale, speed + DEFAULT_FRICTION_LOW_SPEED_EPS)

\* A variant of the decay that is not held at 0
UnclampedRotation(rotationRate, speed, deltaSeconds) ==
  IF rotationRate = 0 THEN 0
  ELSE LET multiplier == IF speed <= SPEED_EPSILON THEN 14 ELSE 7
           reduced == Abs(rotationRate)
                        - Div(multiplier * Friction(speed) * deltaSeconds, 10 * 1000)
       IN  Sign(rotationRate) * reduced

\* The rotation rate after the decay of one step
DecayedRotation(rotationRate, speed, deltaSeconds) ==
  IF rotationRate = 0 THEN 0
  ELSE LET multiplier == IF speed <= SPEED_EPSILON THEN 14 ELSE 7
           reduced == Max(0, Abs(rotationRate)
                               - Div(multiplier * Friction(speed) * deltaSeconds, 10 * 1000))
       IN  IF reduced = 0 THEN 0 ELSE Sign(rotationRate) * reduced

\* The angle after one step, wrapped into [0, 2 pi)
WrappedAngle(angle, rotationRate, deltaSeconds) ==
  LET a == angle + Div(rotationRate * deltaSeconds, 1000)
      b == IF a >= TWO_PI \/ a <= -TWO_PI THEN Rem(a, TWO_PI) ELSE a
  IN  IF b < 0 THEN b + TWO_PI ELSE b

\* A stone displacing above the speed epsilon or spinning above the spin
\* epsilon
InMotion(stone) ==
  \/ Hypot(stone.velocity.vx, stone.velocity.vy) > SPEED_EPSILON
  \/ Abs(stone.rotationRate) > SPEED_EPSILON

----------------------------------------------------------------------------
(* step: the loop over the stones *)

\* The branch of step for a stone whose speed is at most SPEED_EPSILON
RestingStone(W, i, deltaSeconds, rotationActive) ==
  LET stone == recordStonePathSample(
                 [W.stones[i] EXCEPT !.velocity = [vx |-> 0, vy |-> 0]],
                 deltaSeconds, 0)
      W1 == [W EXCEPT !.stones[i] = stone]
  IN  IF ~rotationActive
        THEN IF isOutBeforeFarHog(stone) THEN handleStoneOut(W1, i)
                                         ELSE NotifyStopped(W1, i)
        ELSE [W1 EXCEPT !.anyMoving = TRUE,
                        !.stones[i].hasStoppedNotified = FALSE]

\* The end of the branch for a displacing stone, once it is known to be in
\* bounds: spin activation, hog lines, the second speed test
SettleMovingStone(W, i, previousY, now, rotationActive) ==
  LET activationY == (IF hogLineNear = Null THEN 0 ELSE hogLineNear) - FOOT_IN_METERS * 2
      W1 == checkHogLineCrossings(
              [W EXCEPT !.stones[i] =
                 checkRotationActivation(W.stones[i], previousY, activationY)],
              i, previousY, now)
      stone == W1.stones[i]
  IN  IF Hypot(stone.velocity.vx, stone.velocity.vy) > SPEED_EPSILON
        THEN [W1 EXCEPT !.anyMoving = TRUE]
        ELSE LET W2 == [W1 EXCEPT !.stones[i].velocity = [vx |-> 0, vy |-> 0]]
             IN  IF ~rotationActive
                   THEN IF isOutBeforeFarHog(W2.stones[i])
                          THEN handleStoneOut(W2, i)
                          ELSE NotifyStopped(W2, i)
                   ELSE [W2 EXCEPT !.anyMoving = TRUE]

\* The branch of step for a stone whose speed is above SPEED_EPSILON
MovingStone(W, i, deltaSeconds, now, speed, rotationActive) ==
  LET stone == W.stones[i]
      friction == Friction(speed)
      newSpeed == Max(0, speed - Div(friction * deltaSeconds, 1000))
      displacement == Div((speed + newSpeed) * deltaSeconds, 2 * 1000)
      dirX0 == Div(stone.velocity.vx * Scale, speed)
      dirY0 == Div(stone.velocity.vy * Scale, speed)
      headingDelta == computeCurlHeadingDelta(stone.rotationRate, speed, deltaSeconds)
      dirX == IF headingDelta = 0 THEN dirX0
              ELSE Div(dirX0 * Cos(headingDelta) - dirY0 * Sin(headingDelta), Scale)
      dirY == IF headingDelta = 0 THEN dirY0
              ELSE Div(dirX0 * Sin(headingDelta) + dirY0 * Cos(headingDelta), Scale)
      previousY == stone.position.y
      moved == recordStonePathSample(
                 [stone EXCEPT
                    !.hasStoppedNotified = FALSE,
                    !.position = [x |-> stone.position.x + Div(dirX * displacement, Scale),
                                  y |-> stone.position.y + Div(dirY * displacement, Scale)]],
                 deltaSeconds, displacement)
      slowed == [moved EXCEPT !.velocity = [vx |-> Div(dirX * newSpeed, Scale),
                                            vy |-> Div(dirY * newSpeed, Scale)]]
      W1 == [W EXCEPT !.stones[i] = slowed,
                      !.integrated = W.integrated \cup {[stone |-> i, at |-> slowed.position]}]
  IN  IF isOutOfBounds(slowed) THEN handleStoneOut(W1, i)
      ELSE SettleMovingStone(W1, i, previousY, now, rotationActive)

\* A turn of the loop that does not skip the stones that are not launched
StepEveryStone(W, i, deltaSeconds, now) ==
  LET stone == W.stones[i]
      speed == Hypot(stone.velocity.vx, stone.velocity.vy)
      rotationRate == DecayedRotation(stone.rotationRate, speed, deltaSeconds)
      rotationActive == Abs(rotationRate) > SPEED_EPSILON
      W1 == [W EXCEPT
               !.stones[i].angle = WrappedAngle(stone.angle, stone.rotationRate, deltaSeconds),
               !.stones[i].rotationRate = rotationRate]
  IN  IF speed <= SPEED_EPSILON
        THEN RestingStone(W1, i, deltaSeconds, rotationActive)
        ELSE MovingStone(W1, i, deltaSeconds, now, speed, rotationActive)

\* One turn of the loop of step
StepStone(W, i, deltaSeconds, now) ==
  LET stone == W.stones[i]
      speed == Hypot(stone.velocity.vx, stone.velocity.vy)
      rotationRate == DecayedRotation(stone.rotationRate, speed, deltaSeconds)
      rotationActive == Abs(rotationRate) > SPEED_EPSILON
      W1 == [W EXCEPT
               !.stones[i].angle = WrappedAngle(stone.angle, stone.rotationRate, deltaSeconds),
               !.stones[i].rotationRate = rotationRate,
               !.quiet[i] = W.quiet[i] /\ ~InMotion(stone)]
  IN  IF ~stone.isLaunched THEN W
      ELSE IF speed <= SPEED_EPSILON
        THEN RestingStone(W1, i, deltaSeconds, rotationActive)
        ELSE MovingStone(W1, i, deltaSeconds, now, speed, rotationActive)

RECURSIVE StepStones(_, _, _, _)
StepStones(W, i, deltaSeconds, now) ==
  IF i > Len(W.stones) THEN W
  ELSE StepStones(StepStone(W, i, deltaSeconds, now), i + 1, deltaSeconds, now)

----------------------------------------------------------------------------
(* resolveCollisions *)

\* The clamped coefficients of resolveCollisions
minDistance == stoneRadius * 2
restitution == Max(0, Min(collisionRestitution, Scale))
spinTransfer == Max(0, collisionSpinTransfer)
spinDamping == Max(0, Min(collisionSpinDamping, 9500))
tangentialLoss == Max(0, Min(collisionTangentialLoss, 9500))

\* a / b for b > 0, rounded away from zero
DivUp(a, b) == IF a >= 0 THEN (a + b - 1) \div b ELSE -((-a + b - 1) \div b)

\* velocity * time, for a time in units of 10 microseconds
Travel(v, time) == Div(v * (time \div 100), 1000) + Div(v * (time % 100), 100 * 1000)

\* rewindStone (sign = -1) and advanceStone (sign = 1)
ShiftStone(stone, time, sign) ==
  IF time <= 0 THEN stone
  ELSE [stone EXCEPT
          !.position = [x |-> stone.position.x + sign * Travel(stone.velocity.vx, time),
                        y |-> stone.position.y + sign * Travel(stone.velocity.vy, time)]]

\* Whether two centres are closer than 2 * radius, on the exact squares
Overlapping(a, b) ==
  LET dx == b.position.x - a.position.x
      dy == b.position.y - a.position.y
  IN  /\ Abs(dx) < minDistance
      /\ Abs(dy) < minDistance
      /\ dx * dx + dy * dy < minDistance * minDistance

\* Whether the overlap of two overlapping stones exceeds COLLISION_EPSILON
OverlapAboveEpsilon(a, b) ==
  LET dx == b.position.x - a.position.x
      dy == b.position.y - a.position.y
      reach == minDistance - COLLISION_EPSILON
  IN  dx * dx + dy * dy < reach * reach

\* The collision normal from a to b, scaled by Scale; old is kept when the
\* centres are within COLLISION_EPSILON of each other
Normal(a, b, old) ==
  LET dx == b.position.x - a.position.x
      dy == b.position.y - a.position.y
      distance == Hypot(dx, dy)
  IN  IF dx * dx + dy * dy > COLLISION_EPSILON * COLLISION_EPSILON
        THEN [x |-> Div(dx * Scale, distance), y |-> Div(dy * Scale, distance)]
        ELSE old

\* The relative velocity of a against b along a direction scaled by Scale
RelVelAlong(a, b, dir) ==
  Div((a.velocity.vx - b.velocity.vx) * dir.x + (a.velocity.vy - b.velocity.vy) * dir.y,
      Scale)

\* The rewind time of a pair, in units of 10 microseconds (0: no rewind)
RewindTime(a, b, normal, deltaSeconds) ==
  LET dx == b.position.x - a.position.x
      dy == b.position.y - a.position.y
      overlapInitial == Max(0, minDistance - Hypot(dx, dy))
      relVelAlongNormal == RelVelAlong(a, b, normal)
  IN  IF /\ OverlapAboveEpsilon(a, b)
         /\ relVelAlongNormal < -SPEED_EPSILON
         /\ deltaSeconds > SPEED_EPSILON \div 10
        THEN Min(Div(overlapInitial * 100 * 1000, -relVelAlongNormal), deltaSeconds * 100)
        ELSE 0

\* The positional correction of a pair that was not rewound
Corrected(a, b, normal, rewindTime) ==
  LET dx == b.position.x - a.position.x
      dy == b.position.y - a.position.y
      overlapAfterRewind == Max(0, minDistance - Hypot(dx, dy))
      cx == DivUp(normal.x * overlapAfterRewind, 2 * Scale)
      cy == DivUp(normal.y * overlapAfterRewind, 2 * Scale)
  IN  IF rewindTime = 0 /\ OverlapAboveEpsilon(a, b)
        THEN << [a EXCEPT !.position = [x |-> a.position.x - cx, y |-> a.position.y - cy]],
                [b EXCEPT !.position = [x |-> b.position.x + cx, y |-> b.position.y + cy]] >>
        ELSE << a, b >>

\* A variant of the impulses whose normal impulse leaves out the restitution
InelasticImpulses(a, b, normal) ==
  LET relVelAlongNormal == RelVelAlong(a, b, normal)
      impulse == IF relVelAlongNormal > SPEED_EPSILON
                   THEN Div(relVelAlongNormal, 2)
                   ELSE 0
      ix == Div(impulse * normal.x, Scale)
      iy == Div(impulse * normal.y, Scale)
  IN  << [a EXCEPT !.velocity = [vx |-> a.velocity.vx - ix, vy |-> a.velocity.vy - iy]],
         [b EXCEPT !.velocity = [vx |-> b.velocity.vx + ix, vy |-> b.velocity.vy + iy]] >>

\* The velocities of a pair after the normal and the tangential impulse
Impulses(a, b, normal) ==
  LET relVelAlongNormal == RelVelAlong(a, b, normal)
      tangent == [x |-> -normal.y, y |-> normal.x]
      relVelTangential == RelVelAlong(a, b, tangent)
      impulse == IF relVelAlongNormal > SPEED_EPSILON
                   THEN Div((Scale + restitution) * relVelAlongNormal, 2 * Scale)
                   ELSE 0
      tangentialImpulse ==
        IF Abs(relVelTangential) > SPEED_EPSILON /\ tangentialLoss > 0
          THEN Div(relVelTangential * tangentialLoss, 2 * Scale)
          ELSE 0
      ix == Div(impulse * normal.x, Scale) + Div(tangentialImpulse * tangent.x, Scale)
      iy == Div(impulse * normal.y, Scale) + Div(tangentialImpulse * tangent.y, Scale)
  IN  << [a EXCEPT !.velocity = [vx |-> a.velocity.vx - ix, vy |-> a.velocity.vy - iy]],
         [b EXCEPT !.velocity = [vx |-> b.velocity.vx + ix, vy |-> b.velocity.vy + iy]] >>

\* A variant of the spin transfer that leaves the activation latches alone
SpinTransferUnlatched(a, b, relVelTangential) ==
  LET rotationA == a.rotationRate
      rotationB == b.rotationRate
      spinSurfaceVelocity == Div((rotationA - rotationB) * stoneRadius, Scale)
      combinedTangential == relVelTangential + spinSurfaceVelocity
      angularDelta == Div(Div(combinedTangential * Scale, stoneRadius) * spinTransfer,
                          2 * Scale)
  IN  IF Abs(combinedTangential) > SPEED_EPSILON /\ spinTransfer > 0
        THEN << [a EXCEPT !.rotationRate = rotationA - angularDelta],
                [b EXCEPT !.rotationRate = rotationB + angularDelta] >>
        ELSE << a, b >>

\* The spin transfer of a pair; relVelTangential is taken before the impulses
SpinTransfer(a, b, relVelTangential) ==
  LET rotationA == a.rotationRate
      rotationB == b.rotationRate
      spinSurfaceVelocity == Div((rotationA - rotationB) * stoneRadius, Scale)
      combinedTangential == relVelTangential + spinSurfaceVelocity
      angularDelta == Div(Div(combinedTangential * Scale, stoneRadius) * spinTransfer,
                          2 * Scale)
      Damped(r) == IF spinDamping > 0 THEN r - Div(r * spinDamping, Scale) ELSE r
  IN  IF Abs(combinedTangential) > SPEED_EPSILON /\ spinTransfer > 0
        THEN << [a EXCEPT !.rotationRate = Damped(rotationA - angularDelta),
                          !.rotationActivated = TRUE],
                [b EXCEPT !.rotationRate = Damped(rotationB + angularDelta),
                          !.rotationActivated = TRUE] >>
        ELSE << a, b >>

\* The latch of a stone after a collision: cleared when it has any spin
Unlatched(stone) ==
  IF Abs(stone.rotationRate) > 0 THEN [stone EXCEPT !.hasStoppedNotified = FALSE]
                                 ELSE stone

\* The body of the inner loop of resolveCollisions for an overlapping pair
CollidePair(a, b, deltaSeconds) ==
  LET normal0 == Normal(a, b, [x |-> Scale, y |-> 0])
      rewindTime == RewindTime(a, b, normal0, deltaSeconds)
      a1 == ShiftStone(a, rewindTime, -1)
      b1 == ShiftStone(b, rewindTime, -1)
      normal == IF rewindTime > 0 THEN Normal(a1, b1, normal0) ELSE normal0
      fixed == Corrected(a1, b1, normal, rewindTime)
      tangent == [x |-> -normal.y, y |-> normal.x]
      relVelTangential == RelVelAlong(a, b, tangent)
      hit == Impulses(fixed[1], fixed[2], normal)
      spun == SpinTransfer(hit[1], hit[2], relVelTangential)
  IN  << ShiftStone(Unlatched(spun[1]), rewindTime, 1),
         ShiftStone(Unlatched(spun[2]), rewindTime, 1) >>

\* What is kept of a pair that resolveCollisions handled: the stones as it
\* found them and as it left them, and the rewind time it used
Collision(i, j, a, b, a2, b2, deltaSeconds) ==
  [ a |-> i, b |-> j,
    before |-> << [position |-> a.position, velocity |-> a.velocity],
                  [position |-> b.position, velocity |-> b.velocity] >>,
    after |-> << [position |-> a2.position, velocity |-> a2.velocity],
                 [position |-> b2.position, velocity |-> b2.velocity] >>,
    rewindTime |-> RewindTime(a, b, Normal(a, b, [x |-> Scale, y |-> 0]), deltaSeconds),
    deltaSeconds |-> deltaSeconds ]

\* A stone resolveCollisions looks at
InPlay(stone) == stone.isLaunched /\ ~stone.isOut

\* One pair (i, j) of resolveCollisions
ResolvePair(W, i, j, deltaSeconds) ==
  IF InPlay(W.stones[i]) /\ InPlay(W.stones[j]) /\ Overlapping(W.stones[i], W.stones[j])
    THEN LET pair == CollidePair(W.stones[i], W.stones[j], deltaSeconds)
         IN  [W EXCEPT !.stones[i] = pair[1], !.stones[j] = pair[2],
                       !.generatedMotion = TRUE,
                       !.touched = W.touched \cup {i, j},
                       !.collisions = Append(W.collisions,
                                        Collision(i, j, W.stones[i], W.stones[j],
                                                  pair[1], pair[2], deltaSeconds))]
    ELSE W

RECURSIVE ResolvePairs(_, _, _, _)
ResolvePairs(W, i, j, deltaSeconds) ==
  IF i > Len(W.stones) THEN W
  ELSE IF j > Len(W.stones) THEN ResolvePairs(W, i + 1, i + 2, deltaSeconds)
  ELSE ResolvePairs(ResolvePair(W, i, j, deltaSeconds), i, j + 1, deltaSeconds)

\* resolveCollisions; W.generatedMotion is what it returns
resolveCollisions(W, deltaSeconds) ==
  IF stoneRadius = 0 THEN W ELSE ResolvePairs(W, 1, 2, deltaSeconds)

----------------------------------------------------------------------------
(* step and update *)

\* The engine as a step starts
StepStart ==
  [ stones |-> stones,
    outTrayIndices |-> outTrayIndices,
    anyMoving |-> FALSE,
    generatedMotion |-> FALSE,
    calls |-> << >>,
    stopCount |-> hist.stopCount,
    quiet |-> hist.quiet,
    touched |-> {},
    integrated |-> {},
    collisions |-> << >>,
    nearCount |-> hist.nearCount,
    farCount |-> hist.farCount,
    traySlot |-> hist.traySlot ]

\* A step that does not look at what resolveCollisions returned
MovingBeforeCollisions(anyMoving, generatedMotion) == anyMoving

\* What step makes of anyMoving once resolveCollisions has returned
StillMoving(anyMoving, generatedMotion) == anyMoving \/ generatedMotion

\* The end of step, from the engine as the loop over the stones left it
\* (W1) and as resolveCollisions left it (W2)
EndStep(W1, W2) ==
  [W2 EXCEPT
     !.anyMoving = StillMoving(W1.anyMoving, W2.generatedMotion),
     !.quiet = [i \in DOMAIN W2.quiet |-> W2.quiet[i] /\ ~InMotion(W2.stones[i])]]

\* step(deltaSeconds): the engine as the step ends; W.anyMoving decides
\* whether the engine stays Active.  Each stage is a singleton set, so that
\* the stage before it is computed once.
step(deltaSeconds, now) ==
  LET afterLoop == { StepStones(StepStart, 1, deltaSeconds, now) }
      afterStep == { EndStep(W1, resolveCollisions(W1, deltaSeconds)) : W1 \in afterLoop }
  IN  CHOOSE W \in afterStep : TRUE

\* An update that leaves lastTimestamp cleared while the engine is Idle: a
\* variant against which the property of the Idle update is tested
NoBaseline(timestamp) == Null

\* What update stores in lastTimestamp while the engine is Idle
IdleBaseline(timestamp) == timestamp

\* update(timestamp)
update(timestamp) ==
  /\ clock' = timestamp
  /\ IF ~isActive \/ lastTimestamp = Null
       THEN /\ lastTimestamp' = IF ~isActive THEN IdleBaseline(timestamp) ELSE timestamp
            /\ op' = [name |-> "update", timestamp |-> timestamp, wasActive |-> isActive,
                      steps |-> 0, deltaSeconds |-> 0, calls |-> << >>,
                      generatedMotion |-> FALSE, touched |-> {},
                      integrated |-> {}, collisions |-> << >>]
            /\ hist' = [hist EXCEPT !.updatesSinceThrow = 1]
            /\ UNCHANGED << stones, stoneInventory, outTrayLayouts, outTrayIndices,
                            isActive, callbacks, geometry >>
       ELSE \E W \in { step(timestamp - lastTimestamp, timestamp) } :
                /\ stones' = W.stones
                /\ outTrayIndices' = W.outTrayIndices
                /\ isActive' = W.anyMoving
                /\ lastTimestamp' = IF W.anyMoving THEN timestamp ELSE Null
                /\ op' = [name |-> "update", timestamp |-> timestamp, wasActive |-> TRUE,
                          steps |-> 1, deltaSeconds |-> timestamp - lastTimestamp,
                          calls |-> W.calls,
                          generatedMotion |-> W.generatedMotion, touched |-> W.touched,
                          integrated |-> W.integrated, collisions |-> W.collisions]
                /\ hist' = [hist EXCEPT !.updatesSinceThrow = 1,
                                        !.stopCount = W.stopCount,
                                        !.quiet = W.quiet,
                                        !.nearCount = W.nearCount,
                                        !.farCount = W.farCount,
                                        !.traySlot = W.traySlot]
                /\ UNCHANGED << stoneInventory, outTrayLayouts, callbacks, geometry >>

----------------------------------------------------------------------------
(* The engine after construction, and the calls made on it *)

Init ==
  /\ stones = << >>
  /\ stoneInventory = << >>
  /\ outTrayLayouts = << >>
  /\ outTrayIndices = << >>
  /\ isActive = FALSE
  /\ lastTimestamp = Null
  /\ callbacks \in CallbackConfigs
  /\ geometry \in Geometries
  /\ clock = 0
  /\ op = [name |-> "constructor"]
  /\ hist = FreshHist(0)
  /\ game = [pc |-> "none"]

\* One call of throwStone for each missing argument and for a stone that is
\* not registered
InvalidThrows ==
  { Throw(RED, NoVelocity, 0, 0, 0),
    Throw("", <<0, 4500>>, 0, 0, 0),
    [Throw(RED, <<0, 4500>>, 0, 0, 0) EXCEPT !.number = Null],
    [Throw(RED, <<0, 4500>>, 0, 0, 0) EXCEPT !.number = 2] }

InitializeStones ==
  \E configs \in ConfigLists :
    initializeStones(configs) /\ UNCHANGED game

SetOutTrayLayouts ==
  \E layoutMap \in LayoutMaps :
    setOutTrayLayouts(layoutMap) /\ UNCHANGED game

ResetOutTrayIndices == resetOutTrayIndices /\ UNCHANGED game

ThrowStone ==
  \E t \in ValidThrows \cup InvalidThrows :
    /\ hist.throws < MaxThrows
    /\ throwStone(t.color, t.number, t.velocity, t.spin, t.angle, t.offsetX)
    /\ UNCHANGED game

Update ==
  \E d \in Dts :
    /\ clock + d <= MaxClock
    /\ update(clock + d)
    /\ UNCHANGED game

Next ==
  \/ InitializeStones
  \/ SetOutTrayLayouts
  \/ ResetOutTrayIndices
  \/ ThrowStone
  \/ Update

Spec == Init /\ [][Next]_vars

\* The engine constructed with each of the geometries, and stones thrown at
\* the back line and at the side wall
GeometryInit ==
  /\ stones = << >>
  /\ stoneInventory = << >>
  /\ outTrayLayouts = << >>
  /\ outTrayIndices = << >>
  /\ isActive = FALSE
  /\ lastTimestamp = Null
  /\ callbacks \in CallbackConfigs
  /\ geometry \in SheetGeometries
  /\ clock = 0
  /\ op = [name |-> "constructor"]
  /\ hist = FreshHist(0)
  /\ game = [pc |-> "none"]

ThrowLong ==
  \E t \in LongThrows :
    /\ hist.throws < MaxThrows
    /\ throwStone(t.color, t.number, t.velocity, t.spin, t.angle, t.offsetX)
    /\ UNCHANGED game

GeometryNext ==
  \/ InitializeStones
  \/ SetOutTrayLayouts
  \/ ThrowLong
  \/ Update

GeometrySpec == GeometryInit /\ [][GeometryNext]_vars

\* The engine with a team of two red stones, whose throws are ruled out
InitializeTeam == initializeStones(TeamConfigs) /\ UNCHANGED game

ThrowShort ==
  \E t \in ShortThrows :
    /\ hist.throws < MaxTrayThrows
    /\ throwStone(t.color, t.number, t.velocity, t.spin, t.angle, t.offsetX)
    /\ UNCHANGED game

TrayNext ==
  \/ InitializeTeam
  \/ SetOutTrayLayouts
  \/ ResetOutTrayIndices
  \/ ThrowShort
  \/ Update

TraySpec == Init /\ [][TrayNext]_vars

\* The engine initialized with each of the lists of configs
InitializeRegistry ==
  \E configs \in RegistryConfigLists :
    initializeStones(configs) /\ UNCHANGED game

RegistryNext ==
  \/ InitializeRegistry
  \/ SetOutTrayLayouts
  \/ ThrowShort
  \/ Update

RegistrySpec == Init /\ [][RegistryNext]_vars

\* The engine updated with long gaps between the frames
ThrowSlow ==
  \E t \in SlowThrows :
    /\ hist.throws < MaxThrows
    /\ throwStone(t.color, t.number, t.velocity, t.spin, t.angle, t.offsetX)
    /\ UNCHANGED game

UpdateLate ==
  \E d \in LongDts :
    /\ clock + d <= MaxLongClock
    /\ update(clock + d)
    /\ UNCHANGED game

PathNext ==
  \/ InitializeStones
  \/ SetOutTrayLayouts
  \/ ThrowSlow
  \/ UpdateLate

PathSpec == Init /\ [][PathNext]_vars

\* The engine constructed with elastic and with default collisions, and
\* stones thrown at each other
CollisionInit ==
  /\ stones = << >>
  /\ stoneInventory = << >>
  /\ outTrayLayouts = << >>
  /\ outTrayIndices = << >>
  /\ isActive = FALSE
  /\ lastTimestamp = Null
  /\ callbacks \in CallbackConfigs
  /\ geometry \in CollisionSheets
  /\ clock = 0
  /\ op = [name |-> "constructor"]
  /\ hist = FreshHist(0)
  /\ game = [pc |-> "none"]

ThrowHeadOn ==
  \E t \in HeadOnThrows :
    /\ hist.throws < MaxThrows
    /\ throwStone(t.color, t.number, t.velocity, t.spin, t.angle, t.offsetX)
    /\ UNCHANGED game

CollisionNext ==
  \/ InitializeStones
  \/ SetOutTrayLayouts
  \/ ThrowHeadOn
  \/ Update

CollisionSpec == CollisionInit /\ [][CollisionNext]_vars

\* The engine updated with short gaps between the frames, and stones
\* thrown with spin
ThrowSpin ==
  \E t \in SpinThrows :
    /\ hist.throws < MaxThrows
    /\ throwStone(t.color, t.number, t.velocity, t.spin, t.angle, t.offsetX)
    /\ UNCHANGED game

UpdateSoon ==
  \E d \in ShortDts :
    /\ clock + d <= MaxShortClock
    /\ update(clock + d)
    /\ UNCHANGED game

ReleaseNext ==
  \/ InitializeStones
  \/ SetOutTrayLayouts
  \/ ThrowSpin
  \/ UpdateSoon

ReleaseSpec == Init /\ [][ReleaseNext]_vars

\* The engine updated until the stones have come to rest, with frames that
\* are not all a whole sample interval apart
ThrowToRest ==
  \E t \in RestingThrows :
    /\ hist.throws < MaxThrows
    /\ throwStone(t.color, t.number, t.velocity, t.spin, t.angle, t.offsetX)
    /\ UNCHANGED game

UpdateToRest ==
  \E d \in SettleDts :
    /\ clock + d <= MaxSettleClock
    /\ update(clock + d)
    /\ UNCHANGED game

SettleNext ==
  \/ InitializeStones
  \/ SetOutTrayLayouts
  \/ ThrowToRest
  \/ UpdateToRest

SettleSpec == Init /\ [][SettleNext]_vars

----------------------------------------------------------------------------
(* The game flow of the page (main.js).  The engine is constructed with    *)
(* the sheet and onStoneStopped, the stones of both teams are registered,  *)
(* the out trays are laid out, the first end is started, and animationLoop *)
(* runs frame after frame.  game.pc is the call that comes next; E is the  *)
(* page while an end is scored:                                            *)
(*   E.stones, E.outTrayIndices   the fields of the engine it assigns      *)
(*   E.traySlot                   the history (see FreshHist)              *)
(*   E.game                       the variables of main.js                 *)
(* Beside the variables of main.js, game keeps for each end that was       *)
(* scored how many of its throws had been made and whether the engine was  *)
(* Idle, how many ends were started, and how many stones were thrown since *)
(* the engine last settled.                                                *)

redQueue == [k \in 1..Len(redStoneConfigs) |-> redStoneConfigs[k].number]
yellowQueue == [k \in 1..Len(yellowStoneConfigs) |-> yellowStoneConfigs[k].number]

\* queue[index] of an array: undefined past its end
QueueAt(queue, index) == IF index < Len(queue) THEN queue[index + 1] ELSE Null

\* The colour buildStoneOrder gives the throw after one of color
NextColor(color) == IF color = RED THEN YELLOW ELSE RED

RECURSIVE BuildOrder(_, _, _, _, _)
BuildOrder(order, currentColor, redIndex, yellowIndex, totalThrows) ==
  IF Len(order) >= totalThrows THEN order
  ELSE IF currentColor = RED
    THEN BuildOrder(Append(order, [color |-> currentColor,
                                   number |-> QueueAt(redQueue, redIndex)]),
                    NextColor(currentColor), redIndex + 1, yellowIndex, totalThrows)
    ELSE BuildOrder(Append(order, [color |-> currentColor,
                                   number |-> QueueAt(yellowQueue, yellowIndex)]),
                    NextColor(currentColor), redIndex, yellowIndex + 1, totalThrows)

buildStoneOrder(startingColor) ==
  BuildOrder(<< >>, startingColor, 0, 0, Len(redQueue) + Len(yellowQueue))

\* createDemoThrowPlan, with what it draws at random
createDemoThrowPlan(entry, draw) ==
  [color |-> entry.color, number |-> entry.number,
   rotation |-> draw.rotation, velocity |-> draw.velocity]

\* launchDemoStones
launchDemoStones(g, draws) ==
  LET stoneOrder == buildStoneOrder(g.startingTeamColor)
  IN  [g EXCEPT
         !.demoThrowSchedule =
            [k \in 1..Len(stoneOrder) |-> createDemoThrowPlan(stoneOrder[k], draws[k])],
         !.nextDemoThrowIndex = 0,
         !.demoAwaitingSettle = FALSE]

\* trayPositionLookup[color].get(number)
trayPositionLookup(color, number) ==
  LET configs == redStoneConfigs \o yellowStoneConfigs
      k == CHOOSE k \in 1..Len(configs) :
             configs[k].color = color /\ configs[k].number = number
  IN  configs[k].position

\* What resetStonesToHomeTrays assigns to a stone
HomeStone(stone) ==
  resetStonePath(
    [stone EXCEPT
       !.position = trayPositionLookup(stone.color, stone.number),
       !.velocity = [vx |-> 0, vy |-> 0],
       !.pendingRotationRate = 0,
       !.rotationRate = 0,
       !.rotationActivated = TRUE,
       !.angle = 0,
       !.isLaunched = FALSE,
       !.isOut = FALSE,
       !.hasStoppedNotified = TRUE])

\* resetStonesToHomeTrays
resetStonesToHomeTrays(E) ==
  [E EXCEPT
     !.stones = [i \in DOMAIN E.stones |-> HomeStone(E.stones[i])],
     !.outTrayIndices = [c \in DOMAIN E.outTrayIndices |-> 0]]

\* relocateStoneToOutTray
relocateStoneToOutTray(E, i) ==
  LET placed == placeStoneInOutTray([E EXCEPT !.stones[i] = OutStone(E.stones[i])], i)
  IN  [placed EXCEPT !.stones[i] = resetStonePath(placed.stones[i])]

\* stonesOutsideHouse.forEach(relocateStoneToOutTray): the stones of the
\* set ids, in the order of the registry
RECURSIVE RelocateEach(_, _)
RelocateEach(E, ids) ==
  IF ids = {} THEN E
  ELSE LET first == CHOOSE i \in ids : \A j \in ids : i <= j
       IN  RelocateEach(relocateStoneToOutTray(E, first), ids \ {first})

\* A maybeHandleEndCompletion that does not wait for the last throw: a
\* variant against which the property of the scoring is tested
AnyThrowScheduled(g) == Len(g.demoThrowSchedule) > 0

areAllThrowsCompleted(g) ==
  Len(g.demoThrowSchedule) > 0 /\ g.nextDemoThrowIndex >= Len(g.demoThrowSchedule)

hasMultipleColors(S, ordered) ==
  /\ Len(ordered) > 0
  /\ \E k \in 1..Len(ordered) : S[ordered[k]].color # S[ordered[1]].color

\* ensureScoreCapacity: the scores of both teams reach to endIndex
ensureScoreCapacity(g, endIndex) ==
  [g EXCEPT !.scheduledEnds = Max(g.scheduledEnds, endIndex + 1)]

\* startNewEnd
startNewEnd(E, initialColor, draws) ==
  IF E.game.isGameOver THEN E
  ELSE LET g1 == ensureScoreCapacity([E.game EXCEPT !.startingTeamColor = initialColor],
                                     E.game.currentEndIndex)
           g2 == launchDemoStones(g1, draws)
       IN  [resetStonesToHomeTrays(E) EXCEPT
              !.game = [g2 EXCEPT !.isEndInProgress = TRUE,
                                  !.endResultCommitted = FALSE,
                                  !.endsStarted = g2.endsStarted + 1,
                                  !.thrownThisEnd = 0]]

\* clearDemoSchedule
clearDemoSchedule(g) ==
  [g EXCEPT !.demoThrowSchedule = << >>,
            !.nextDemoThrowIndex = 0,
            !.demoAwaitingSettle = FALSE]

\* concludeGame
concludeGame(E) ==
  [E EXCEPT !.game = clearDemoSchedule([E.game EXCEPT !.isGameOver = TRUE,
                                                      !.isEndInProgress = FALSE])]

\* startNextEndIfAvailable
startNextEndIfAvailable(E, draws) ==
  LET g == E.game
      isTie == g.total[RED] = g.total[YELLOW]
  IN  IF g.isGameOver THEN E
      ELSE IF g.currentEndIndex >= g.scheduledEnds
        THEN IF isTie
               THEN startNewEnd([E EXCEPT !.game.scheduledEnds = g.scheduledEnds + 1],
                                g.startingTeamColor, draws)
               ELSE concludeGame(E)
      ELSE startNewEnd(E, g.startingTeamColor, draws)

\* recordEndScore; winningColor is "" where the code has null
recordEndScore(g, winningColor, points) ==
  LET g1 == ensureScoreCapacity(g, g.currentEndIndex)
  IN  [g1 EXCEPT
         !.total = [c \in StoneColor |->
                      IF winningColor # "" /\ c = winningColor
                        THEN g.total[c] + points ELSE g.total[c]],
         !.currentEndIndex = g.currentEndIndex + 1]

\* finalizeEndResult
finalizeEndResult(E, winningColor, points, draws) ==
  LET g1 == [E.game EXCEPT !.endResultCommitted = TRUE, !.isEndInProgress = FALSE]
      g2 == recordEndScore(g1, winningColor, points)
      g3 == IF winningColor # "" /\ points > 0
              THEN [g2 EXCEPT !.startingTeamColor = winningColor] ELSE g2
  IN  startNextEndIfAvailable([E EXCEPT !.game = g3], draws)

\* Math.hypot(position.x, position.y) is compared by its square
DistanceSquared(position) == position.x * position.x + position.y * position.y

\* stonesInHouse.sort by distance: the sort is stable, stones at one
\* distance stay in the order of the registry
SortByDistance(S, ids) ==
  LET Before(i, j) ==
        \/ DistanceSquared(S[i].position) < DistanceSquared(S[j].position)
        \/ DistanceSquared(S[i].position) = DistanceSquared(S[j].position) /\ i < j
  IN  [k \in 1..Cardinality(ids) |->
         CHOOSE i \in ids : Cardinality({j \in ids : Before(j, i)}) = k - 1]

\* The loop of scoreCurrentEnd that removes the farthest stone while the
\* stones in the house are of both colours
RECURSIVE PopWhileMixed(_, _)
PopWhileMixed(E, ordered) ==
  IF Len(ordered) > 0 /\ hasMultipleColors(E.stones, ordered)
    THEN PopWhileMixed(relocateStoneToOutTray(E, ordered[Len(ordered)]),
                       SubSeq(ordered, 1, Len(ordered) - 1))
    ELSE [E |-> E, ordered |-> ordered]

\* scoreCurrentEnd
scoreCurrentEnd(E0, draws) ==
  LET scoringRadius == HOUSE_RADIUS + stoneRadius
      launched == {i \in DOMAIN E0.stones : E0.stones[i].isLaunched}
      stonesOutsideHouse ==
        {i \in launched :
           DistanceSquared(E0.stones[i].position) > scoringRadius * scoringRadius}
      stonesInHouse == launched \ stonesOutsideHouse
      E1 == RelocateEach([E0 EXCEPT !.game = ensureScoreCapacity(E0.game,
                                                  E0.game.currentEndIndex)],
                         stonesOutsideHouse)
      P == PopWhileMixed(E1, SortByDistance(E0.stones, stonesInHouse))
  IN  IF stonesInHouse = {}
        THEN finalizeEndResult(E1, "", 0, draws)
        ELSE finalizeEndResult(P.E, P.E.stones[P.ordered[1]].color,
                               Len(P.ordered), draws)

\* A page that never finds the engine running: a variant against which
\* the property of the scheduled throws is tested
NeverRunning == FALSE

\* physicsEngine.isRunning()
isRunning == isActive

\* The page as a call of main.js finds it
PageStart ==
  [stones |-> stones, outTrayIndices |-> outTrayIndices,
   traySlot |-> hist.traySlot, game |-> game]

\* The page as the call leaves it; pc is the call that comes next
PageEnd(E, name, pc) ==
  /\ stones' = E.stones
  /\ outTrayIndices' = E.outTrayIndices
  /\ hist' = [hist EXCEPT !.traySlot = E.traySlot]
  /\ game' = [E.game EXCEPT !.pc = pc]
  /\ op' = [name |-> name]
  /\ UNCHANGED << stoneInventory, outTrayLayouts, isActive, lastTimestamp,
                  callbacks, geometry, clock >>

\* What the engine is constructed with, and the variables of main.js as
\* the module declares them
GameInit ==
  /\ stones = << >>
  /\ stoneInventory = << >>
  /\ outTrayLayouts = << >>
  /\ outTrayIndices = << >>
  /\ isActive = FALSE
  /\ lastTimestamp = Null
  /\ callbacks = {"onStoneStopped"}
  /\ geometry = GameSheet
  /\ clock = 0
  /\ op = [name |-> "constructor"]
  /\ hist = FreshHist(0)
  /\ game = [ pc |-> "initializeStones",
              demoThrowSchedule |-> << >>,
              nextDemoThrowIndex |-> 0,
              demoAwaitingSettle |-> FALSE,
              currentEndIndex |-> 0,
              startingTeamColor |-> RED,
              isEndInProgress |-> FALSE,
              endResultCommitted |-> FALSE,
              isGameOver |-> FALSE,
              scheduledEnds |-> BASE_ENDS,
              total |-> [c \in StoneColor |-> 0],
              scored |-> << >>,
              endsStarted |-> 0,
              thrownThisEnd |-> 0,
              thrownSinceSettle |-> 0 ]

\* physicsEngine.initializeStones([...redStoneConfigs, ...yellowStoneConfigs])
RegisterStones ==
  /\ game.pc = "initializeStones"
  /\ initializeStones(redStoneConfigs \o yellowStoneConfigs)
  /\ game' = [game EXCEPT !.pc = "setOutTrayLayouts"]

\* physicsEngine.setOutTrayLayouts({...})
LayOutTrays ==
  /\ game.pc = "setOutTrayLayouts"
  /\ setOutTrayLayouts(GameLayouts)
  /\ game' = [game EXCEPT !.pc = "startNewEnd"]

\* startNewEnd(startingTeamColor), as the module calls it when it is
\* loaded; draws is what createDemoThrowPlan draws for each throw of the end
StartFirstEnd ==
  /\ game.pc = "startNewEnd"
  /\ \E draws \in [DOMAIN buildStoneOrder(game.startingTeamColor) -> DemoThrows] :
       PageEnd(startNewEnd(PageStart, game.startingTeamColor, draws),
               "startNewEnd", "processDemoThrows")

\* processDemoThrows, the first call of animationLoop.  While the engine is
\* running it returns, whether demoAwaitingSettle is set or not; otherwise
\* it clears demoAwaitingSettle and throws.  A throwStone that raises ends
\* the frame and the loop, after nextDemoThrowIndex was advanced.
ProcessDemoThrows ==
  /\ game.pc = "processDemoThrows"
  /\ LET schedule == game.demoThrowSchedule
         settled == [game EXCEPT !.demoAwaitingSettle = FALSE]
         plan == schedule[game.nextDemoThrowIndex + 1]
         advanced == [settled EXCEPT !.nextDemoThrowIndex = game.nextDemoThrowIndex + 1]
     IN  IF Len(schedule) = 0 \/ game.nextDemoThrowIndex >= Len(schedule) \/ isRunning
           THEN /\ game' = [game EXCEPT !.pc = "update"]
                /\ op' = [name |-> "processDemoThrows"]
                /\ UNCHANGED << stones, stoneInventory, outTrayLayouts, outTrayIndices,
                                isActive, lastTimestamp, callbacks, geometry, clock,
                                hist >>
           ELSE /\ throwStone(plan.color, plan.number, plan.velocity, plan.rotation, 0, 0)
                /\ game' = IF ThrowError(plan.color, plan.number, plan.velocity) = "none"
                             THEN [advanced EXCEPT
                                     !.demoAwaitingSettle = TRUE,
                                     !.thrownThisEnd = game.thrownThisEnd + 1,
                                     !.thrownSinceSettle = game.thrownSinceSettle + 1,
                                     !.pc = "update"]
                             ELSE [advanced EXCEPT !.pc = "raised"]

\* physicsEngine.update(timestamp), the second call of animationLoop
PhysicsUpdate ==
  /\ game.pc = "update"
  /\ \E d \in GameDts :
       /\ clock + d <= MaxGameTicks * 1000
       /\ update(clock + d)
  /\ game' = [game EXCEPT
                !.pc = "maybeHandleEndCompletion",
                !.thrownSinceSettle = IF isActive /\ ~isActive' THEN 0 ELSE @]

\* maybeHandleEndCompletion, the last call of animationLoop that changes
\* the game, and requestAnimationFrame
MaybeHandleEndCompletion ==
  /\ game.pc = "maybeHandleEndCompletion"
  /\ LET scoring == [end |-> game.currentEndIndex,
                     made |-> game.thrownThisEnd,
                     scheduled |-> Len(game.demoThrowSchedule),
                     idle |-> ~isActive]
         E0 == [PageStart EXCEPT !.game.scored = Append(game.scored, scoring)]
     IN  IF \/ ~game.isEndInProgress
            \/ game.endResultCommitted
            \/ Len(game.demoThrowSchedule) = 0
            \/ ~areAllThrowsCompleted(game)
            \/ isRunning
           THEN PageEnd(PageStart, "maybeHandleEndCompletion", "processDemoThrows")
           ELSE \E draws \in [DOMAIN buildStoneOrder(game.startingTeamColor) -> DemoThrows] :
                  PageEnd(scoreCurrentEnd(E0, draws), "maybeHandleEndCompletion",
                          "processDemoThrows")

GameNext ==
  \/ RegisterStones
  \/ LayOutTrays
  \/ StartFirstEnd
  \/ ProcessDemoThrows
  \/ PhysicsUpdate
  \/ MaybeHandleEndCompletion

GameSpec == GameInit /\ [][GameNext]_vars

----------------------------------------------------------------------------
(* Properties.  A call of throwStone or update shows in op: its arguments,  *)
(* what it returned or raised, the callbacks it invoked.                    *)

\* The latest operation is a call of throwStone that returned a stone
Thrown(o) == o.name = "throwStone" /\ o.result = "ok"

\* The latest operation is a call of throwStone that raised an error
Raised(o) == o.name = "throwStone" /\ o.result # "ok"

NullTiming == [nearCrossedAt |-> Null, farCrossedAt |-> Null]

\* C1: throwStone raises an error, returns no stone and leaves the engine as
\* it was when the velocity is absent, when the colour is absent or the
\* number is null, when no stone is registered under (colour, number), and
\* when the registered stone is already launched.
C1_ThrowStoneRaises ==
  [][ op'.name = "throwStone" =>
        LET a == op'.args
            key == makeStoneKey(a.color, a.number)
            failing ==
              \/ a.velocity = NoVelocity
              \/ a.color = ""
              \/ a.number = Null
              \/ key \notin DOMAIN stoneInventory
              \/ stones[stoneInventory[key]].isLaunched
        IN  failing => /\ Raised(op')
                       /\ op'.stone = 0
                       /\ op'.calls = << >>
                       /\ UNCHANGED engineVars ]_vars

\* C1, its case: a throw of a stone that is in motion was refused
C1_Witness ==
  /\ Raised(op)
  /\ op.result = "launched"
  /\ stones[findStone(op.args.color, op.args.number)].isLaunched
  /\ stones[findStone(op.args.color, op.args.number)].velocity.vy > 0

\* C2: a successful throwStone leaves the stone at (offsetX, launchY) with
\* the given velocity and angle, rotationRate 0 and the spin pending,
\* launched, not out, not notified as stopped, with a path trace of the
\* launch point alone and no hog timestamps; it invokes onStoneReleased once
\* (when that callback is registered) and nothing else, and it leaves the
\* engine Active with its baseline cleared.
C2_ThrowStoneSucceeds ==
  [][ Thrown(op') =>
        LET a == op'.args
            stone == stones'[op'.stone]
            launch == [x |-> a.offsetX, y |-> launchY]
        IN  /\ op'.stone = findStone(a.color, a.number)
            /\ stone.position = launch
            /\ stone.velocity = [vx |-> a.velocity[1], vy |-> a.velocity[2]]
            /\ stone.angle = a.angle
            /\ stone.rotationRate = 0
            /\ stone.pendingRotationRate = a.spin
            /\ stone.isLaunched
            /\ ~stone.isOut
            /\ ~stone.hasStoppedNotified
            /\ stone.pathSamples = << launch >>
            /\ stone.hogTiming = NullTiming
            /\ "onStoneReleased" \in callbacks =>
                  /\ Len(op'.calls) = 1
                  /\ op'.calls[1].cb = "onStoneReleased"
            /\ isActive'
            /\ lastTimestamp' = Null ]_vars

\* C2, its case: the second throw of an end, made with spin and off the
\* centre line while the engine was Active
C2_Witness ==
  /\ Thrown(op)
  /\ op.args.spin # 0
  /\ op.args.offsetX # 0
  /\ hist.throws = 2
  /\ stones[op.stone].pendingRotationRate = op.args.spin
  /\ stones[op.stone].pathSamples = << [x |-> op.args.offsetX, y |-> launchY] >>
  /\ \E j \in DOMAIN stones :
       /\ j # op.stone
       /\ stones[j].velocity.vy > 0
       /\ stones[j].position.y > launchY
  /\ isActive

\* The latest operation is an update that ran a step
Stepped(o) == o.name = "update" /\ o.steps = 1

\* No launched stone displaces above the speed epsilon or spins above the
\* spin epsilon
NothingMoves == \A i \in DOMAIN stones : stones[i].isLaunched => ~InMotion(stones[i])

\* C3: in every reachable state in which the engine is Idle, no launched
\* stone has speed above the speed epsilon or |rotationRate| above the spin
\* epsilon.
C3_IdleMeansAtRest == ~isActive => NothingMoves

\* C4: at the end of every step in which no launched stone is displacing
\* or spinning above the epsilons, the engine is Idle and its baseline is
\* cleared.
C4_IdleWhenNothingMoves ==
  (Stepped(op) /\ NothingMoves) => (~isActive /\ lastTimestamp = Null)

\* A state that every further update leaves as it is, but for the clock:
\* the engine is Active with a baseline, and a step of any length changes
\* no stone and no tray and keeps the engine Active
Stuck ==
  /\ isActive
  /\ lastTimestamp # Null
  /\ \A d \in Dts :
       LET W == step(d, clock + d)
       IN  /\ W.stones = stones
           /\ W.outTrayIndices = outTrayIndices
           /\ W.anyMoving

\* C5: after a successful throw, updates with increasing timestamps and no
\* further throw bring the engine to Idle, whatever stones rest in play.  An
\* engine that becomes Idle is at no time in a state that every update
\* leaves Active and unchanged.
C5_UpdatesReachIdle == ~Stuck

\* C6: the first update after a successful throwStone, whether the engine
\* was Idle or Active when the stone was thrown, only stores its timestamp as
\* the baseline and runs no step; every later update made while the engine
\* is Active runs one step, with dt the time since the previous update.
C6_BaselineThenSteps ==
  [][ op'.name = "update" =>
        /\ (isActive /\ hist.updatesSinceThrow = 0) =>
              /\ op'.steps = 0
              /\ op'.calls = << >>
              /\ lastTimestamp' = op'.timestamp
              /\ isActive'
              /\ UNCHANGED << stones, outTrayIndices >>
        /\ (isActive /\ hist.updatesSinceThrow = 1) =>
              /\ op'.steps = 1
              /\ op'.deltaSeconds = op'.timestamp - clock
              /\ op'.deltaSeconds > 0 ]_vars

\* C6, its case: a stone was thrown while another was on its way, the next
\* update ran no step and the update after it ran one
C6_Witness ==
  /\ Stepped(op)
  /\ hist.throws = 2
  /\ \E i, j \in DOMAIN stones :
       /\ i # j
       /\ Len(stones[i].pathSamples) = 3
       /\ Len(stones[j].pathSamples) = 2
       /\ stones[i].velocity.vy > 0
       /\ stones[j].velocity.vy > 0

\* C7: an update made while the engine is Idle changes no stone, no tray
\* and no inventory, invokes no callback and leaves the engine Idle; it
\* stores its timestamp in lastTimestamp.
C7_IdleUpdate ==
  [][ (op'.name = "update" /\ ~isActive) =>
        /\ UNCHANGED << stones, stoneInventory, outTrayLayouts, outTrayIndices >>
        /\ op'.steps = 0
        /\ op'.calls = << >>
        /\ ~isActive'
        /\ lastTimestamp' = op'.timestamp ]_vars

\* C7, its case: an update found the engine Idle with a stone at rest in
\* play and a timestamp stored by an earlier Idle update
C7_Witness ==
  /\ op.name = "update"
  /\ ~op.wasActive
  /\ ~isActive
  /\ lastTimestamp = clock
  /\ \E i \in DOMAIN stones : stones[i].isLaunched /\ stones[i].hasStoppedNotified

\* The stone was thrown alone, with no spin and straight up the sheet
ThrownAloneStraight(i) ==
  /\ hist.throws = 1
  /\ hist.lastThrow[i].velocity # NoVelocity
  /\ hist.lastThrow[i].velocity[1] = 0
  /\ hist.lastThrow[i].spin = 0

\* The stone is at rest in play: launched, not out, at or past the far hog
\* line, neither displacing nor spinning
AtRestInPlay(i) ==
  /\ InPlay(stones[i])
  /\ stones[i].velocity = [vx |-> 0, vy |-> 0]
  /\ stones[i].rotationRate = 0
  /\ stones[i].position.y >= hogLineFar

\* C8: for a single stone thrown with no spin straight up the sheet that
\* comes to rest in play, onStoneStopped is invoked once for that throw and
\* hasStoppedNotified is true from then on.
C8_StoppedOnce ==
  \A i \in DOMAIN stones :
    (ThrownAloneStraight(i) /\ AtRestInPlay(i)) =>
      /\ hist.stopCount[i] = 1
      /\ stones[i].hasStoppedNotified

\* C8, its case: the stone has come to rest in play, the engine is Idle and
\* updates have been made since
C8_Witness ==
  \E i \in DOMAIN stones :
    /\ ThrownAloneStraight(i)
    /\ AtRestInPlay(i)
    /\ hist.stopCount[i] = 1
    /\ op.name = "update"
    /\ ~op.wasActive

\* The calls of onStoneStopped that an operation made
StoppedCalls(o) ==
  IF o.name = "update"
    THEN { k \in DOMAIN o.calls : o.calls[k].cb = "onStoneStopped" }
    ELSE {}

\* C9: onStoneStopped is not invoked twice for a stone unless, between the
\* two invocations, the stone was displacing above the speed epsilon,
\* spinning above the spin epsilon, or thrown again.
C9_NoRepeatedStop == \A k \in StoppedCalls(op) : ~op.calls[k].repeat

\* A call of onStoneStopped for a stone that handleStoneOut took where its
\* centre was inside the side lines and short of the far hog line
ShortStop(call) ==
  /\ call.out
  /\ call.from.y < hogLineFar
  /\ call.from.x > sheetExtents.xMin + stoneRadius
  /\ call.from.x < sheetExtents.xMax - stoneRadius

\* The stone is launched and at rest short of the far hog line
RestsShort(stone) ==
  /\ stone.isLaunched
  /\ ~InMotion(stone)
  /\ stone.position.y < hogLineFar

\* The slots of a colour on which no stone of that colour lies
FreeSlots(color) ==
  { k \in DOMAIN outTrayLayouts[color] :
      \A j \in DOMAIN stones :
        stones[j].color = color => stones[j].position # outTrayLayouts[color][k] }

\* The slot at the out-tray index of a colour, counted from 1, after ahead
\* more stones of the colour have been placed
IndexedSlot(color, ahead) ==
  LET index == IF color \in DOMAIN outTrayIndices THEN outTrayIndices[color] ELSE 0
  IN  Min(index + ahead, Len(outTrayLayouts[color]) - 1) + 1

HasSlots(color) ==
  color \in DOMAIN outTrayLayouts /\ Len(outTrayLayouts[color]) > 0

\* C10 as stated: a launched stone that comes to rest short of the far hog
\* line is ruled out in that step and placed on the first free out-tray
\* slot of its colour; no step leaves it at rest in play.
C10_ShortStoneToFirstFreeSlot ==
  [][ Stepped(op') =>
        /\ \A i \in DOMAIN stones : ~RestsShort(stones'[i])
        /\ \A k \in StoppedCalls(op') :
             LET call == op'.calls[k]
                 stone == stones'[call.stone]
             IN  ShortStop(call) =>
                   /\ stone.isOut
                   /\ ~stone.isLaunched
                   /\ (HasSlots(stone.color) /\ FreeSlots(stone.color) # {}) =>
                        \E slot \in FreeSlots(stone.color) :
                          /\ \A other \in FreeSlots(stone.color) : slot <= other
                          /\ stone.position = outTrayLayouts[stone.color][slot] ]_vars

\* C10, amended: a launched stone that the loop of a step finds at rest
\* short of the far hog line is ruled out in that step and placed on the
\* slot at the out-tray index of its colour (the stones of the colour ruled
\* out since the layouts were set or the indices reset, at most the last
\* slot), free or not; a stone is left at rest short of the line only by
\* the collision pass of the step.
C10_ShortStoneToIndexedSlot ==
  [][ Stepped(op') =>
        /\ \A i \in DOMAIN stones : RestsShort(stones'[i]) => i \in op'.touched
        /\ \A k \in StoppedCalls(op') :
             LET call == op'.calls[k]
                 stone == stones'[call.stone]
                 ahead == { n \in StoppedCalls(op') :
                              /\ n < k
                              /\ op'.calls[n].out
                              /\ stones[op'.calls[n].stone].color = stone.color }
             IN  ShortStop(call) =>
                   /\ stone.isOut
                   /\ ~stone.isLaunched
                   /\ HasSlots(stone.color) =>
                        stone.position =
                          outTrayLayouts[stone.color][IndexedSlot(stone.color, Cardinality(ahead))] ]_vars

\* C10, its case: a stone that was ruled out and thrown again stopped short
\* once more and lies on the second slot of its colour, the first one free
C10_Witness ==
  \E k \in StoppedCalls(op) :
    LET call == op.calls[k]
        stone == stones[call.stone]
    IN  /\ ShortStop(call)
        /\ stone.isOut
        /\ HasSlots(stone.color)
        /\ stone.position = outTrayLayouts[stone.color][2]
        /\ 1 \in FreeSlots(stone.color)

----------------------------------------------------------------------------
(* Boundaries, trays, hog lines, path traces, the registry, collisions *)

\* A centre within one radius of a side wall that was configured
AtSideWall(p) ==
  /\ "sheetExtents" \in DOMAIN geometry
  /\ \/ p.x <= sheetExtents.xMin + stoneRadius
     \/ p.x >= sheetExtents.xMax - stoneRadius

\* A centre whose y minus the radius is at or past a back line that was
\* configured
PastBackLine(p) == backLineY # Null /\ p.y - stoneRadius >= backLineY

\* C11: for every geometry, a stone that the step displaced and whose
\* integration left it within one radius of a configured side wall, or with
\* y minus radius at or past a configured back line, is out when the step
\* ends; absent extents disable the side-wall test alone, an absent back
\* line the back-line test alone.
C11_OutOfBoundsRuledOut ==
  Stepped(op) =>
    \A m \in op.integrated :
      (AtSideWall(m.at) \/ PastBackLine(m.at)) => stones[m.stone].isOut

\* The slots of a colour's out-tray layout
TraySlots(color) ==
  IF color \in DOMAIN outTrayLayouts
    THEN { outTrayLayouts[color][k] : k \in 1..Len(outTrayLayouts[color]) }
    ELSE {}

\* C12 as stated: in every reachable state a stone with isOut = true has
\* zero velocity, zero rotationRate and a position equal to one of the
\* slots of its colour's out-tray layout.
C12_OutStoneAtSomeSlot ==
  \A i \in DOMAIN stones :
    stones[i].isOut =>
      /\ stones[i].velocity = [vx |-> 0, vy |-> 0]
      /\ stones[i].rotationRate = 0
      /\ stones[i].position \in TraySlots(stones[i].color)

\* C12, amended: in every reachable state a stone with isOut = true is not
\* launched and has zero velocity and zero rotationRate, and when
\* placeStoneInOutTray found a slot for it as it was ruled out, its
\* position is that slot of its colour's layout.
C12_OutStoneAtItsSlot ==
  \A i \in DOMAIN stones :
    stones[i].isOut =>
      /\ ~stones[i].isLaunched
      /\ stones[i].velocity = [vx |-> 0, vy |-> 0]
      /\ stones[i].rotationRate = 0
      /\ hist.traySlot[i] # 0 =>
            /\ stones[i].color \in DOMAIN outTrayLayouts
            /\ hist.traySlot[i] <= Len(outTrayLayouts[stones[i].color])
            /\ stones[i].position = outTrayLayouts[stones[i].color][hist.traySlot[i]]

\* C12, its case: a stone that was thrown with spin and ruled out lies on a
\* slot of its colour, and an update has been made since it was ruled out
C12_Witness ==
  \E i \in DOMAIN stones :
    /\ stones[i].isOut
    /\ hist.traySlot[i] # 0
    /\ stones[i].position \in TraySlots(stones[i].color)
    /\ hist.lastThrow[i].spin # 0
    /\ op.name = "update"
    /\ \A k \in StoppedCalls(op) : op.calls[k].stone # i

\* The calls of onStoneStopped that handleStoneOut made in an operation
OutCalls(o) == { k \in StoppedCalls(o) : o.calls[k].out }

\* The stones of the colour of stone i, other than i, that are out once the
\* k-th call of the latest operation has been made
OthersOut(i, k) ==
  { j \in DOMAIN stones :
      /\ j # i
      /\ stones[j].color = stones[i].color
      /\ stones[j].isOut
      /\ \A n \in OutCalls(op) : op.calls[n].stone = j => n < k }

\* C13 as stated: a stone that is ruled out lies on a slot of its colour
\* that no other stone of the colour that is out occupies, as long as the
\* layout has more slots than there are such stones, and on the last slot
\* once the slots are exhausted; after any throws, out rulings and
\* resetOutTrayIndices calls.
C13_OutStoneToUnusedSlot ==
  \A k \in OutCalls(op) :
    LET i == op.calls[k].stone
        color == stones[i].color
        slots == outTrayLayouts[color]
    IN  HasSlots(color) =>
          IF Cardinality(OthersOut(i, k)) < Len(slots)
            THEN /\ stones[i].position \in TraySlots(color)
                 /\ \A j \in OthersOut(i, k) : stones[j].position # stones[i].position
            ELSE stones[i].position = slots[Len(slots)]

\* C13, amended: a stone that is ruled out while its colour has slots is
\* placed on the slot at the out-tray index of its colour, whether another
\* stone lies there or not, and each placement advances the index by one
\* up to the last slot; resetOutTrayIndices sets every index to 0 and moves
\* no stone.
C13_OutStoneToSlotAtIndex ==
  [][ /\ Stepped(op') =>
           \A k \in OutCalls(op') :
             LET stone == stones'[op'.calls[k].stone]
                 ahead == { n \in OutCalls(op') :
                              n < k /\ stones[op'.calls[n].stone].color = stone.color }
                 placed == { n \in OutCalls(op') :
                               stones[op'.calls[n].stone].color = stone.color }
             IN  HasSlots(stone.color) =>
                   /\ stone.isOut
                   /\ stone.position =
                        outTrayLayouts[stone.color][IndexedSlot(stone.color, Cardinality(ahead))]
                   /\ outTrayIndices'[stone.color] + 1 =
                        IndexedSlot(stone.color, Cardinality(placed))
      /\ op'.name = "resetOutTrayIndices" =>
           /\ \A c \in DOMAIN outTrayIndices' : outTrayIndices'[c] = 0
           /\ UNCHANGED << stones, outTrayLayouts >> ]_vars

\* C13, its case: the indices were reset while a red stone was out, and the
\* next red stone that was ruled out lies on the same slot, the other slot
\* of the colour free
C13_Witness ==
  \E k \in OutCalls(op) :
    LET i == op.calls[k].stone
    IN  /\ HasSlots(stones[i].color)
        /\ stones[i].isOut
        /\ \E j \in OthersOut(i, k) : stones[j].position = stones[i].position
        /\ Cardinality(OthersOut(i, k)) = 1
        /\ FreeSlots(stones[i].color) # {}

\* The calls of a hog-line callback that an operation made for a stone
HogCalls(o, cb, i) ==
  IF o.name = "update"
    THEN { k \in DOMAIN o.calls : o.calls[k].cb = cb /\ o.calls[k].stone = i }
    ELSE {}

\* The stone was thrown alone, with no spin and straight up the sheet, and
\* it is in play at or past the far hog line
ReachedFarHog(i) ==
  /\ ThrownAloneStraight(i)
  /\ hist.lastThrow[i].velocity[2] > 0
  /\ hist.lastThrow[i].offsetX = 0
  /\ InPlay(stones[i])
  /\ stones[i].position.y >= hogLineFar

\* C14: a stone thrown straight up the sheet from the launch line that
\* reaches the far hog line has triggered onHogNearCross and then
\* onHogSplit, each once and in that order, and the duration passed to
\* onHogSplit is greater than 0, whatever the gaps between the ticks.
C14_HogSplitAfterNearCross ==
  \A i \in DOMAIN stones :
    /\ ReachedFarHog(i) => (hist.nearCount[i] = 1 /\ hist.farCount[i] = 1)
    /\ ThrownAloneStraight(i) =>
         \A k \in HogCalls(op, "onHogSplit", i) :
           /\ op.calls[k].durationMs > 0
           /\ \/ \E n \in HogCalls(op, "onHogNearCross", i) : n < k
              \/ stones[i].hogTiming.nearCrossedAt < op.timestamp

\* C15: between two throws of a stone, a near-hog crossing is recorded for
\* it at most once and a far-hog split at most once, and a split is
\* recorded, and onHogSplit invoked, only when a near crossing is recorded
\* for that throw, at a time that is not later.
C15_TimingOncePerThrow ==
  \A i \in DOMAIN stones :
    /\ hist.nearCount[i] <= 1
    /\ hist.farCount[i] <= 1
    /\ hist.farCount[i] <= hist.nearCount[i]
    /\ (hist.nearCount[i] = 1) = (stones[i].hogTiming.nearCrossedAt # Null)
    /\ (hist.farCount[i] = 1) = (stones[i].hogTiming.farCrossedAt # Null)
    /\ hist.farCount[i] = 1 =>
          stones[i].hogTiming.nearCrossedAt <= stones[i].hogTiming.farCrossedAt
    /\ Cardinality(HogCalls(op, "onHogNearCross", i)) <= 1
    /\ Cardinality(HogCalls(op, "onHogSplit", i)) <= 1
    /\ HogCalls(op, "onHogSplit", i) # {} => hist.nearCount[i] = 1

\* C15, its case: a stone that was ruled out after it had crossed the near
\* hog line was thrown again, and on its second throw it has crossed the
\* near and the far hog line, each recorded once
C15_Witness ==
  \E i \in DOMAIN stones :
    /\ hist.throws = 2
    /\ \A j \in DOMAIN stones : j # i => hist.lastThrow[j] = NoThrow
    /\ hist.nearCount[i] = 1
    /\ hist.farCount[i] = 1
    /\ stones[i].hogTiming.nearCrossedAt < stones[i].hogTiming.farCrossedAt
    /\ stones[i].position.y >= hogLineFar

\* The newest points of a trace, at most as many as the cap allows, in
\* their order
Newest(samples) ==
  SubSeq(samples, Len(samples) - Min(Len(samples), MAX_PATH_SAMPLE_POINTS) + 1,
         Len(samples))

\* The point that a step appends to the trace of a stone: where its
\* integration left it, or where it rests
SampledPoint(o, i) ==
  IF \E m \in o.integrated : m.stone = i
    THEN (CHOOSE m \in o.integrated : m.stone = i).at
    ELSE stones[i].position

\* The number of points that a step appends to the trace of a stone: one
\* for each sampling interval that has elapsed for a stone it displaces,
\* one for a launched stone that rests away from the newest point of its
\* trace
SampledCount(o, i) ==
  IF \E m \in o.integrated : m.stone = i
    THEN (stones[i].pathSampleTimer + o.deltaSeconds) \div DEFAULT_PATH_SAMPLE_INTERVAL
    ELSE IF /\ stones[i].isLaunched
            /\ stones[i].pathSamples[Len(stones[i].pathSamples)] # stones[i].position
           THEN 1
           ELSE 0

\* C16: the path trace of every stone has at most MAX_PATH_SAMPLE_POINTS
\* points in every reachable state, and the trace that a step leaves is
\* made of the newest points of the trace it found followed by the points
\* it appended: a point appended to a trace at the cap removes the oldest
\* point and no other, and the order of the points is kept.
C16_PathCapped ==
  [][ /\ \A i \in DOMAIN stones' :
           Len(stones'[i].pathSamples) <= MAX_PATH_SAMPLE_POINTS
      /\ Stepped(op') =>
           \A i \in DOMAIN stones :
             stones'[i].pathSamples =
               Newest(stones[i].pathSamples
                        \o [k \in 1..SampledCount(op', i) |-> SampledPoint(op', i)]) ]_vars

\* C16, its case: a trace holds as many points as the cap allows, the
\* launch point has been removed from it, and its newest point, appended
\* when the trace was at the cap, differs from the point before it
C16_Witness ==
  \E i \in DOMAIN stones :
    LET samples == stones[i].pathSamples
    IN  /\ Len(samples) = MAX_PATH_SAMPLE_POINTS
        /\ samples[1].y # launchY
        /\ samples[Len(samples)] # samples[Len(samples) - 1]
        /\ samples[Len(samples) - 1] = samples[1]

\* The key of the i-th stone of the registry
KeyOf(i) == makeStoneKey(stones[i].color, stones[i].number)

\* C17: after initializeStones, whatever the list of configs, the engine
\* holds one stone for each (color, number) pair: no two stones of the list
\* that getStones returns have the same pair, and the lookup of throwStone
\* finds each stone of the list under its pair, and no other stone.
C17_OneStonePerPair ==
  /\ \A i, j \in DOMAIN stones : KeyOf(i) = KeyOf(j) => i = j
  /\ \A i \in DOMAIN stones :
       /\ KeyOf(i) \in DOMAIN stoneInventory
       /\ stoneInventory[KeyOf(i)] = i
  /\ \A key \in DOMAIN stoneInventory :
       /\ stoneInventory[key] \in DOMAIN stones
       /\ KeyOf(stoneInventory[key]) = key

\* C18: at the end of every step, no two launched stones that are not out
\* have their centres closer than 2 * radius minus COLLISION_EPSILON.
C18_NoOverlapAfterStep ==
  Stepped(op) =>
    \A i, j \in DOMAIN stones :
      (i < j /\ InPlay(stones[i]) /\ InPlay(stones[j])) =>
        ~OverlapAboveEpsilon(stones[i], stones[j])

\* Whether the centres of the pair of a collision record were overlapping
\* when resolveCollisions found it
FoundOverlapping(c) ==
  LET dx == c.before[2].position.x - c.before[1].position.x
      dy == c.before[2].position.y - c.before[1].position.y
  IN  dx * dx + dy * dy < minDistance * minDistance

\* Whether the centre distance of the pair of a collision record was
\* decreasing when resolveCollisions found it
FoundApproaching(c) ==
  LET dx == c.before[2].position.x - c.before[1].position.x
      dy == c.before[2].position.y - c.before[1].position.y
      dvx == c.before[2].velocity.vx - c.before[1].velocity.vx
      dvy == c.before[2].velocity.vy - c.before[1].velocity.vy
  IN  dx * dvx + dy * dvy < 0

\* C19: resolveCollisions rewinds a pair only when the two stones overlap
\* and approach each other, and the rewind time (in units of 10
\* microseconds) is greater than 0 and at most the duration of the step.
C19_RewindOnlyWhenApproaching ==
  op.name = "update" =>
    \A k \in DOMAIN op.collisions :
      op.collisions[k].rewindTime # 0 =>
        /\ FoundOverlapping(op.collisions[k])
        /\ FoundApproaching(op.collisions[k])
        /\ op.collisions[k].rewindTime > 0
        /\ op.collisions[k].rewindTime <= op.collisions[k].deltaSeconds * 100

\* Whether the pair of a collision record met head-on at equal speed: the
\* velocities are opposite and lie along the line of the centres
FoundHeadOn(c) ==
  LET dx == c.before[2].position.x - c.before[1].position.x
      dy == c.before[2].position.y - c.before[1].position.y
      va == c.before[1].velocity
      vb == c.before[2].velocity
  IN  /\ va.vx = -vb.vx /\ va.vy = -vb.vy
      /\ dx * va.vy - dy * va.vx = 0

\* C20: with restitution 1, tangential loss 0 and spin transfer 0, an
\* overlapping pair that approaches head-on at equal speed leaves
\* resolveCollisions with the two velocities swapped, so their sum is the
\* same before and after.
C20_ElasticHeadOnSwap ==
  (op.name = "update" /\ restitution = Scale /\ tangentialLoss = 0 /\ spinTransfer = 0) =>
    \A k \in DOMAIN op.collisions :
      LET c == op.collisions[k]
      IN  (FoundOverlapping(c) /\ FoundApproaching(c) /\ FoundHeadOn(c)) =>
            /\ c.after[1].velocity = c.before[2].velocity
            /\ c.after[2].velocity = c.before[1].velocity
            /\ c.after[1].velocity.vx + c.after[2].velocity.vx
                 = c.before[1].velocity.vx + c.before[2].velocity.vx
            /\ c.after[1].velocity.vy + c.after[2].velocity.vy
                 = c.before[1].velocity.vy + c.before[2].velocity.vy

\* C20 witness: an elastic engine has resolved an overlapping pair that
\* approached head-on at equal speed.
C20_Witness ==
  /\ op.name = "update" /\ restitution = Scale /\ tangentialLoss = 0 /\ spinTransfer = 0
  /\ \E k \in DOMAIN op.collisions :
       /\ FoundOverlapping(op.collisions[k])
       /\ FoundApproaching(op.collisions[k])
       /\ FoundHeadOn(op.collisions[k])
       /\ op.collisions[k].before[1].velocity.vx # 0

\* C21: a stone whose spin-activation latch is set has no pending spin.
C21_ActivatedHasNoPendingSpin ==
  \A i \in DOMAIN stones :
    stones[i].rotationActivated => stones[i].pendingRotationRate = 0

\* C22: a stone whose spin has not been activated does not rotate.
C22_NoSpinBeforeActivation ==
  \A i \in DOMAIN stones :
    ~stones[i].rotationActivated => stones[i].rotationRate = 0

\* C22 witness: after a step, a stone thrown with spin is on its way to the
\* activation line, its spin still pending and its latch not set.
C22_Witness ==
  /\ Stepped(op)
  /\ \E i \in DOMAIN stones :
       /\ stones[i].isLaunched
       /\ ~stones[i].rotationActivated
       /\ stones[i].pendingRotationRate # 0
       /\ stones[i].position.y > launchY

\* The line two stone diameters before the near hog line
TwoDiametersLine == hogLineNear - 2 * minDistance

\* C23: over every step, a launched stone whose requested spin is still
\* pending ends the step with rotationRate equal to the requested spin when
\* the step carries it across or onto the line two stone diameters before
\* the near hog line, and with rotationRate 0 and the spin still pending
\* otherwise; a spin that is no longer pending is not transferred again.
C23_SpinReleasedAtLine ==
  [][ Stepped(op') =>
        \A i \in DOMAIN stones :
          (stones[i].isLaunched /\ stones'[i].isLaunched) =>
            IF stones[i].pendingRotationRate # 0
              THEN IF Crosses(stones[i].position.y, stones'[i].position.y, TwoDiametersLine)
                     THEN stones'[i].rotationRate = stones[i].pendingRotationRate
                     ELSE /\ stones'[i].rotationRate = 0
                          /\ stones'[i].pendingRotationRate = stones[i].pendingRotationRate
              ELSE stones'[i].pendingRotationRate = 0 ]_vars

\* Whether the step from stone to next put the pending spin of the stone
\* into effect
ActivatedInStep(stone, next) ==
  stone.pendingRotationRate # 0 /\ next.pendingRotationRate = 0

\* C24: over every step, a stone that takes part in no collision and is
\* not activated in the step has a rotationRate of at most the magnitude it
\* had, and of the same sign or 0.
C24_SpinDecays ==
  [][ Stepped(op') =>
        \A i \in DOMAIN stones :
          (i \notin op'.touched /\ ~ActivatedInStep(stones[i], stones'[i])) =>
            /\ Abs(stones'[i].rotationRate) <= Abs(stones[i].rotationRate)
            /\ \/ stones'[i].rotationRate = 0
               \/ Sign(stones'[i].rotationRate) = Sign(stones[i].rotationRate) ]_vars

\* C24 witness: after a step without a collision, the spin of a stone in
\* play is in effect and has decayed below the spin it was thrown with.
C24_Witness ==
  /\ Stepped(op)
  /\ op.touched = {}
  /\ \E i \in DOMAIN stones :
       /\ InPlay(stones[i])
       /\ hist.lastThrow[i] # NoThrow
       /\ hist.lastThrow[i].spin > 0
       /\ stones[i].pendingRotationRate = 0
       /\ stones[i].rotationRate > 0
       /\ stones[i].rotationRate < hist.lastThrow[i].spin

\* C25: whenever the engine is Idle after a throw, the pathSamples of every
\* stone in play end with the position of the stone.
C25_TraceEndsAtStone ==
  (~isActive /\ hist.throws > 0) =>
    \A i \in DOMAIN stones :
      InPlay(stones[i]) =>
        /\ Len(stones[i].pathSamples) > 0
        /\ stones[i].pathSamples[Len(stones[i].pathSamples)] = stones[i].position

\* C26: a throwStone that raises leaves every stone, the registry, the
\* trays, isActive and lastTimestamp as they were and invokes no callback;
\* a throwStone that changes any of them or invokes a callback was given a
\* velocity, a colour and a number that name a registered stone that was
\* not launched.
C26_FailedThrowChangesNothing ==
  [][ op'.name = "throwStone" =>
        /\ Raised(op') => (UNCHANGED engineVars /\ op'.calls = << >>)
        /\ (~UNCHANGED engineVars \/ op'.calls # << >>) =>
             /\ op'.args.velocity # NoVelocity
             /\ op'.args.color # ""
             /\ op'.args.number # Null
             /\ findStone(op'.args.color, op'.args.number) # 0
             /\ ~stones[findStone(op'.args.color, op'.args.number)].isLaunched ]_vars

\* C26 witness: a throwStone without a velocity was refused while a stone
\* was in motion and the engine had a baseline.
C26_Witness ==
  /\ Raised(op)
  /\ op.result = "velocity"
  /\ isActive
  /\ lastTimestamp # Null
  /\ \E i \in DOMAIN stones : stones[i].isLaunched /\ stones[i].velocity.vy > 0

\* C27: whenever the engine is Idle and onStoneStopped is registered, every
\* launched stone is notified as stopped.
C27_IdleMeansNotified ==
  (~isActive /\ "onStoneStopped" \in callbacks) =>
    \A i \in DOMAIN stones :
      stones[i].isLaunched => stones[i].hasStoppedNotified

\* C27 witness: the engine has gone Idle in a step, with two launched
\* stones at rest whose stops were reported.
C27_Witness ==
  /\ ~isActive
  /\ Stepped(op)
  /\ "onStoneStopped" \in callbacks
  /\ \E i, j \in DOMAIN stones :
       /\ i # j
       /\ stones[i].isLaunched /\ stones[i].hasStoppedNotified /\ hist.stopCount[i] > 0
       /\ stones[j].isLaunched /\ stones[j].hasStoppedNotified /\ hist.stopCount[j] > 0

\* C28: an update leaves every stone that is not launched when it starts as
\* it was, field by field, and no such stone takes part in a collision.
C28_UnlaunchedUntouched ==
  [][ op'.name = "update" =>
        \A i \in DOMAIN stones :
          ~stones[i].isLaunched =>
            /\ stones'[i] = stones[i]
            /\ Stepped(op') =>
                 /\ i \notin op'.touched
                 /\ \A k \in DOMAIN op'.collisions :
                      op'.collisions[k].a # i /\ op'.collisions[k].b # i ]_vars

\* C28 witness: a step has moved a launched stone while one stone lay in the
\* out tray and another had not been thrown.
C28_Witness ==
  /\ Stepped(op)
  /\ \E i, j, k \in DOMAIN stones :
       /\ stones[i].isOut /\ ~stones[i].isLaunched
       /\ ~stones[j].isOut /\ ~stones[j].isLaunched
       /\ stones[k].isLaunched /\ stones[k].velocity.vy > 0

\* C29: in the game flow the ends are scored in turn, each of them once; an
\* end is scored only when every throw of its schedule has been made and
\* the engine is Idle; an end is started, its stones reset and its schedule
\* rebuilt, only when the end before it has been scored
C29_EndsScoredOnce ==
  /\ \A k \in 1..Len(game.scored) :
       /\ game.scored[k].end = k - 1
       /\ game.scored[k].scheduled > 0
       /\ game.scored[k].made = game.scored[k].scheduled
       /\ game.scored[k].idle
  /\ game.currentEndIndex = Len(game.scored)
  /\ game.endsStarted \in {Len(game.scored), Len(game.scored) + 1}
  /\ game.isEndInProgress => game.endsStarted = Len(game.scored) + 1

\* Two ends have been scored and the third one is being played
C29_Witness ==
  /\ game.pc # "none"
  /\ Len(game.scored) = 2
  /\ game.endsStarted = 3
  /\ game.isEndInProgress
  /\ game.thrownThisEnd > 0

\* The step is a processDemoThrows that calls throwStone
ThrowCalled ==
  /\ game.pc = "processDemoThrows"
  /\ game'.nextDemoThrowIndex = game.nextDemoThrowIndex + 1

\* C30: in the game flow processDemoThrows calls throwStone only while the
\* engine is Idle and for a registered stone that is not launched; the call
\* does not raise, and no second stone is thrown before the engine settles
C30_ThrowsOnlyWhenSettled ==
  [][ThrowCalled =>
        LET plan == game.demoThrowSchedule[game.nextDemoThrowIndex + 1]
            i == findStone(plan.color, plan.number)
        IN  /\ ~isActive
            /\ i # 0
            /\ ~stones[i].isLaunched
            /\ op'.name = "throwStone"
            /\ op'.result = "ok"
            /\ game'.pc # "raised"
            /\ game'.thrownSinceSettle = 1]_vars

\* The second stone of a later end is thrown while the first one rests in
\* play
C30_Witness ==
  /\ game.pc = "update"
  /\ Len(game.scored) >= 1
  /\ game.thrownThisEnd = 2
  /\ Thrown(op)
  /\ \E i \in DOMAIN stones : i # op.stone /\ InPlay(stones[i])

====
